---- MODULE Spec2Model ----
(***************************************************************************)
(* The tab groups (EditorTabWidget), the pane tree (the QSplitter tree     *)
(* under SplitContainer.root_splitter) and the commands of SplitContainer, *)
(* translated from src/src/tab_widget.py, src/src/split_container.py and   *)
(* src/src/editor.py; the find bar (FindReplaceWidget) and what MainWindow *)
(* connects it to, from src/src/find_replace.py and src/src/main_window.py.*)
(*                                                                         *)
(* Pane-tree nodes are integers: a tab group is a positive number, a       *)
(* splitter is 0 (root_splitter) or a negative number.  Tab indices are    *)
(* 1-based; index 0 stands for Qt's -1 (no current tab).                   *)
(***************************************************************************)
EXTENDS Integers, Sequences, FiniteSets, TLC

VARIABLES tabs, splitters, active, closing, disk, window, find_replace, lone_editor

vars == <<tabs, splitters, active, closing, disk, window, find_replace, lone_editor>>

\* ------------------------------------------------------------- bounds
\* Spec: the tab groups, the documents, the size (see Load), the file paths and
\* the texts of a state
MaxGroups == 3
MaxDocs == 3
MaxLoad == 4
NumPaths == 1
NumTexts == 2

\* SpecTree: more tab groups, each with little in it
TreeGroups == 4
TreeDocs == 4
TreeLoad == 4
TreePaths == 1

\* The identifiers the largest of the specifications needs
TopGroups == TreeGroups
TopDocs == TreeDocs

\* One tab group and one splitter more than a tree of TopGroups tab groups can
\* hold: for a reference to a tab group that has left the tree, and for the
\* split of a tree that is full
GroupIds == 1..(TopGroups + 1)
SplitIds == (0 - TopGroups)..0

AllTexts == << <<>>, <<"a">>, <<"b">>, <<"a", "b">> >>

TextsUpTo(n) == {AllTexts[i] : i \in 1..(IF n <= Len(AllTexts) THEN n ELSE Len(AllTexts))}

\* SpecFiles: fewer tab groups, more file paths
FilesGroups == 2
FilesDocs == 3
FilesLoad == 4
FilesPaths == 2

NoPath == 0
NoTabs == 0
NoDoc == 0
root_splitter == 0
Orientations == {"Horizontal", "Vertical"}

\* ------------------------------------------------------------- sequences
Range(s) == {s[i] : i \in 1..Len(s)}

IndexOf(s, x) == CHOOSE i \in 1..Len(s) : s[i] = x

RemoveAt(s, i) == SubSeq(s, 1, i - 1) \o SubSeq(s, i + 1, Len(s))

InsertAt(s, i, x) == SubSeq(s, 1, i - 1) \o <<x>> \o SubSeq(s, i, Len(s))

Without(s, x) == IF x \in Range(s) THEN RemoveAt(s, IndexOf(s, x)) ELSE s

\* ------------------------------------------------------------- documents
\* TextEditor.__init__: no file path, empty text, unmodified
TextEditor == [path |-> NoPath, text |-> <<>>, mod |-> FALSE]

\* An editor with its text cursor (QPlainTextEdit.textCursor): anchor and
\* position are offsets into the text, and differ when there is a selection.
\* setPlainText leaves the cursor at the start
QPlainTextEdit(t) ==
    [path |-> NoPath, text |-> t, mod |-> FALSE, anchor |-> 0, position |-> 0]

\* A file: whether open() succeeds (it raises OSError for a file that is not
\* there or may not be read), and the characters it holds
NoFile == [ok |-> FALSE, text |-> <<>>]

File(t) == [ok |-> TRUE, text |-> t]

\* A byte that is not UTF-8
BadByte == "?"

\* The line separator open(path, 'w') writes for "\n" (os.linesep)
linesep == <<"\n">>

\* f.write(text) of a file opened in text mode: "\n" becomes os.linesep
RECURSIVE write_text(_)
write_text(t) ==
    IF t = <<>> THEN <<>>
    ELSE (IF Head(t) = "\n" THEN linesep ELSE <<Head(t)>>) \o write_text(Tail(t))

\* f.read() of a file opened in text mode: "\r\n" and "\r" become "\n"
RECURSIVE read_text(_)
read_text(c) ==
    IF c = <<>> THEN <<>>
    ELSE IF Head(c) = "\r"
    THEN <<"\n">> \o read_text(IF Len(c) > 1 /\ c[2] = "\n" THEN Tail(Tail(c)) ELSE Tail(c))
    ELSE <<Head(c)>> \o read_text(Tail(c))

\* f.read() raises UnicodeDecodeError, which is no OSError and which
\* load_file does not catch
load_file_raises(dk, p) == dk[p].ok /\ BadByte \in Range(dk[p].text)

\* TextEditor.load_file: the result and the editor afterwards
load_file_ok(dk, p) == dk[p].ok /\ ~load_file_raises(dk, p)

load_file(dk, d, p) ==
    IF load_file_ok(dk, p)
    THEN [d EXCEPT !.text = read_text(dk[p].text), !.path = p, !.mod = FALSE]
    ELSE d

\* TextEditor.save_file(file_path): path = file_path or self._file_path; wr is
\* whether open(path, 'w') and the write succeed
save_file_ok(d, p, wr) ==
    LET path == IF p # NoPath THEN p ELSE d.path
    IN  path # NoPath /\ wr

save_file_doc(d, p, wr) ==
    LET path == IF p # NoPath THEN p ELSE d.path
    IN  IF save_file_ok(d, p, wr) THEN [d EXCEPT !.path = path, !.mod = FALSE] ELSE d

\* A save_file that leaves an empty file
save_file_truncates(dk, d, p, wr) ==
    LET path == IF p # NoPath THEN p ELSE d.path
    IN  IF save_file_ok(d, p, wr) THEN [dk EXCEPT ![path] = File(<<>>)] ELSE dk

save_file_disk(dk, d, p, wr) ==
    LET path == IF p # NoPath THEN p ELSE d.path
    IN  IF save_file_ok(d, p, wr) THEN [dk EXCEPT ![path] = File(write_text(d.text))] ELSE dk

\* ------------------------------------------------------------- limits
\* The limits of the specification Spec
Main ==
    [groups |-> MaxGroups, docs |-> MaxDocs, load |-> MaxLoad,
     paths |-> 1..NumPaths, texts |-> TextsUpTo(NumTexts),
     files |-> {NoFile} \cup {File(t) : t \in TextsUpTo(NumTexts)}, window |-> FALSE]

\* SpecFiles: the texts a document is edited to, and the files there are at
\* the start: none, one of one line with a Windows line end, one that is not
\* UTF-8
FilesTextSet == {<<>>, <<"a", "\n">>}

FilesFileSet == {NoFile, File(<<"a", "\r", "\n">>), File(<<BadByte>>)}

\* The limits of the specification SpecFiles
Files ==
    [groups |-> FilesGroups, docs |-> FilesDocs, load |-> FilesLoad,
     paths |-> 1..FilesPaths, texts |-> FilesTextSet, files |-> FilesFileSet,
     window |-> FALSE]

\* The limits of the specification SpecTree
Tree ==
    [groups |-> TreeGroups, docs |-> TreeDocs, load |-> TreeLoad,
     paths |-> 1..TreePaths, texts |-> {<<"a">>}, files |-> {File(<<"a">>)},
     window |-> FALSE]

\* SpecWindow: the SplitContainer inside a MainWindow, with its find bar
WindowGroups == 2
WindowDocs == 3
WindowLoad == 4
WindowPaths == 1
WindowTexts == 2

\* The limits of the specification SpecWindow
Window ==
    [groups |-> WindowGroups, docs |-> WindowDocs, load |-> WindowLoad,
     paths |-> 1..WindowPaths, texts |-> TextsUpTo(WindowTexts),
     files |-> {NoFile} \cup {File(t) : t \in TextsUpTo(WindowTexts)}, window |-> TRUE]

\* ------------------------------------------------------------- the pane tree
DeadSplitter == [orient |-> "Horizontal", lay |-> <<>>, kids |-> <<>>]

DeadTabs == [docs |-> <<>>, cur |-> NoTabs]

IsSplitter(n) == n <= 0

HasParent(sp, n) == \E s \in SplitIds : n \in Range(sp[s].lay)

ParentOf(sp, n) == CHOOSE s \in SplitIds : n \in Range(sp[s].lay)

\* QObject.findChildren(EditorTabWidget): pre-order walk of QObject.children()
RECURSIVE FindNode(_, _)
RECURSIVE FindSeq(_, _)
FindNode(sp, n) == IF IsSplitter(n) THEN FindSeq(sp, sp[n].kids) ELSE <<n>>

FindSeq(sp, ks) ==
    IF ks = <<>> THEN <<>> ELSE FindNode(sp, Head(ks)) \o FindSeq(sp, Tail(ks))

\* The splitters reachable from n, n included
RECURSIVE SplittersUnder(_, _)
SplittersUnder(sp, n) ==
    IF IsSplitter(n)
    THEN {n} \cup UNION {SplittersUnder(sp, sp[n].lay[i]) : i \in 1..Len(sp[n].lay)}
    ELSE {}

\* The leaves in layout order (QSplitter.widget(0), widget(1), ...)
RECURSIVE VisualLeaves(_, _)
RECURSIVE VisualSeq(_, _)
VisualLeaves(sp, n) == IF IsSplitter(n) THEN VisualSeq(sp, sp[n].lay) ELSE <<n>>

VisualSeq(sp, ks) ==
    IF ks = <<>> THEN <<>> ELSE VisualLeaves(sp, Head(ks)) \o VisualSeq(sp, Tail(ks))

\* QWidget.setParent(None): the widget leaves its parent's child list and
\* layout (QSplitter.childEvent, ChildRemoved)
setParentNone(sp, n) ==
    IF HasParent(sp, n)
    THEN LET p == ParentOf(sp, n)
         IN  [sp EXCEPT ![p].lay = Without(@, n), ![p].kids = Without(@, n)]
    ELSE sp

\* QSplitter.insertWidget(index, widget) for a widget that is not yet a child
\* of splitter s: reparented (leaving its old parent), put at layout position
\* i (1-based) and lowered, which makes it the first of QObject.children()
insertWidget(sp, s, i, n) ==
    LET sp1 == setParentNone(sp, n)
    IN  [sp1 EXCEPT ![s].lay = InsertAt(@, i, n), ![s].kids = <<n>> \o @]

\* QSplitter.addWidget(widget)
addWidget(sp, s, n) == insertWidget(sp, s, Len(sp[s].lay) + 1, n)

\* QSplitter.insertWidget(index, widget) for a widget that already is a child
\* of s: it is moved to layout position i
moveWidget(sp, s, i, n) ==
    [sp EXCEPT ![s].lay = InsertAt(Without(@, n), i, n)]

\* SplitContainer._cleanup_empty_splitters: cleanup(splitter) and its loop
\* for i in range(splitter.count() - 1, -1, -1)
RECURSIVE cleanup(_, _)
RECURSIVE cleanup_loop(_, _, _)
cleanup(sp, s) == cleanup_loop(sp, s, Len(sp[s].lay))

cleanup_loop(sp, s, i) ==
    IF i = 0 THEN sp
    ELSE LET widget == sp[s].lay[i]
         IN  IF ~IsSplitter(widget) THEN cleanup_loop(sp, s, i - 1)
             ELSE LET sp1 == cleanup(sp, widget)
                      count == Len(sp1[widget].lay)
                  IN  IF count = 0
                      THEN cleanup_loop(
                               [setParentNone(sp1, widget) EXCEPT ![widget] = DeadSplitter],
                               s, i - 1)
                      ELSE IF count = 1
                      THEN LET child == sp1[widget].lay[1]
                               \* child.setParent(splitter): appended by childEvent
                               sp2 == addWidget(sp1, s, child)
                               \* splitter.insertWidget(i, child)
                               sp3 == moveWidget(sp2, s, i, child)
                               sp4 == setParentNone(sp3, widget)
                           IN  cleanup_loop([sp4 EXCEPT ![widget] = DeadSplitter], s, i - 1)
                      ELSE cleanup_loop(sp1, s, i - 1)

\* A removal that forgets to simplify the tree
cleanup_skipped(sp) == sp

\* SplitContainer._cleanup_empty_splitters
_cleanup_empty_splitters(sp) == cleanup(sp, root_splitter)

\* SplitContainer._get_all_tab_widgets
_get_all_tab_widgets(sp) == FindNode(sp, root_splitter)

\* ------------------------------------------------------------- a command's world
\* The program state while one command runs, with the command's inputs still
\* to be consumed (q: the answers of the confirmation prompts to come) and
\* what it did so far (ret: the value returned; res: the tab index of the editor
\* returned, NoDoc for None; gone: the documents removed, in order, as they
\* were when removed; asked: how each prompt asked so far ended; emitted: the
\* tab groups whose all_tabs_closed signal was emitted; n: the close_tab calls
\* made by close_all_tabs loops; sized: the QSplitter.setSizes calls made;
\* raised: an exception left the command, which ended there).
World(q) ==
    [tabs |-> tabs, sp |-> splitters, active |-> active, closing |-> closing,
     disk |-> disk, window |-> window, find_replace |-> find_replace, q |-> q, ret |-> FALSE, res |-> NoDoc, gone |-> <<>>,
     asked |-> <<>>, emitted |-> <<>>, n |-> 0, sized |-> <<>>, raised |-> FALSE]

Min(S) == CHOOSE x \in S : \A y \in S : x <= y

Leaves(sp) == Range(_get_all_tab_widgets(sp))

FreshTabs(w) == Min(GroupIds \ (Leaves(w.sp) \cup {w.active}))

FreshSplitter(w) ==
    0 - Min({k \in 1..TopGroups : (0 - k) \notin SplittersUnder(w.sp, root_splitter)})

BalanceSize == 1000

\* SplitContainer._balance_splitter
_balance_splitter(w, s) ==
    LET count == Len(w.sp[s].lay)
    IN  IF count > 0
        THEN [w EXCEPT !.sized = Append(@, [splitter |-> s,
                                            sizes |-> [i \in 1..count |-> BalanceSize \div count]])]
        ELSE w

\* ------------------------------------------------------------- the find bar
\* What FindReplaceWidget._editor refers to: nothing (None), the editor at a
\* tab <<g, i>> of a tab group, an editor that has been removed from its tab
\* group, or the editor that stands alone
NoEditor == <<0, 0>>

ClosedEditor == <<0, 1>>

LoneEditor == <<0, 2>>

\* FindReplaceWidget.__init__
FindReplaceWidget ==
    [_editor |-> NoEditor, _last_match_position |-> -1, find_input |-> <<>>,
     replace_input |-> <<>>, case_sensitive |-> FALSE, whole_word |-> FALSE]

\* FindReplaceWidget.set_editor
set_editor(fr, e) == [fr EXCEPT !._editor = e, !._last_match_position = -1]

\* MainWindow._on_editor_changed, for the editor at tab i of g (NoTabs: None)
mw_on_editor_changed(w, g, i) ==
    IF w.window /\ i # NoTabs
    THEN [w EXCEPT !.find_replace = set_editor(@, <<g, i>>)]
    ELSE w

\* MainWindow._on_active_tabs_changed: a tab group without tabs is false
mw_on_active_tabs_changed(w, g) ==
    IF w.window /\ Len(w.tabs[g].docs) > 0 /\ w.tabs[g].cur # NoTabs
    THEN [w EXCEPT !.find_replace = set_editor(@, <<g, w.tabs[g].cur>>)]
    ELSE w

\* EditorTabWidget._on_current_changed and SplitContainer._on_editor_changed:
\* the signal current_editor_changed of g, forwarded if g is the active one
_on_current_changed(w, g, i) == IF g = w.active THEN mw_on_editor_changed(w, g, i) ELSE w

\* ------------------------------------------------------------- EditorTabWidget
\* QTabWidget.setCurrentIndex: an index that is not a tab is ignored, and
\* currentChanged is emitted if the current tab changes
setCurrentIndex(w, g, i) ==
    IF i \in 1..Len(w.tabs[g].docs) /\ i # w.tabs[g].cur
    THEN _on_current_changed([w EXCEPT !.tabs[g].cur = i], g, i)
    ELSE w

\* QTabWidget.removeTab (QTabBar.SelectRightTab): the tab right of a removed
\* current tab becomes current, the last one if there is none to the right;
\* removing a tab left of the current one keeps the current document.
\* currentChanged is emitted unless the tab was right of the current one.  The
\* editor is not deleted: what refers to it goes on doing so
removeTab(w, g, index) ==
    LET t == w.tabs[g]
        left == Len(t.docs) - 1
        cur == IF t.cur = index THEN (IF index <= left THEN index ELSE left)
               ELSE IF index < t.cur THEN t.cur - 1
               ELSE t.cur
        e == w.find_replace._editor
        w1 == [w EXCEPT !.tabs[g] = [docs |-> RemoveAt(t.docs, index), cur |-> cur],
                        !.gone = Append(@, t.docs[index]),
                        !.find_replace._editor =
                            IF e[1] # g THEN e
                            ELSE IF e[2] = index THEN ClosedEditor
                            ELSE IF e[2] > index THEN <<g, e[2] - 1>>
                            ELSE e]
    IN  IF index <= t.cur THEN _on_current_changed(w1, g, cur) ELSE w1

\* A new_tab that adds the empty editor when the file does not load
new_tab_keeps_failed_editor(w, g, file_path) ==
    LET editor == TextEditor
        d == IF file_path # NoPath THEN load_file(w.disk, editor, file_path) ELSE editor
        index == Len(w.tabs[g].docs) + 1
    IN  [w EXCEPT !.tabs[g] = [docs |-> Append(w.tabs[g].docs, d), cur |-> index],
                  !.ret = TRUE, !.res = index]

\* EditorTabWidget.new_tab; the UnicodeDecodeError of load_file leaves it
\* before the editor is added
tw_new_tab(w, g, file_path) ==
    LET editor == TextEditor
    IN  IF file_path # NoPath /\ load_file_raises(w.disk, file_path)
        THEN [w EXCEPT !.raised = TRUE]
        ELSE IF file_path # NoPath /\ ~load_file_ok(w.disk, file_path)
        THEN [w EXCEPT !.ret = FALSE, !.res = NoDoc]
        ELSE LET d == IF file_path # NoPath THEN load_file(w.disk, editor, file_path)
                      ELSE editor
                 index == Len(w.tabs[g].docs) + 1
                 w1 == _on_current_changed(
                           [w EXCEPT !.tabs[g] = [docs |-> Append(w.tabs[g].docs, d),
                                                  cur |-> index]], g, index)
             IN  [w1 EXCEPT !.ret = TRUE, !.res = index]

\* EditorTabWidget.__init__: a new tab group opens one empty tab
tw_init(w, g) == tw_new_tab([w EXCEPT !.tabs[g] = DeadTabs], g, NoPath)

\* EditorTabWidget.current_editor: the index of the current tab, NoTabs if none
current_editor(w, g) == w.tabs[g].cur

\* An open_file that does not look for a tab that holds the file
open_file_always_loads(w, g, file_path) ==
    LET t == w.tabs[g]
        current == current_editor(w, g)
    IN  IF file_path = NoPath THEN [w EXCEPT !.ret = FALSE, !.res = NoDoc]
        ELSE IF /\ current # NoTabs
                /\ t.docs[current].path = NoPath
                /\ ~t.docs[current].mod
                /\ t.docs[current].text = <<>>
                /\ load_file_ok(w.disk, file_path)
        THEN [w EXCEPT !.tabs[g].docs[current] = load_file(w.disk, @, file_path),
                       !.ret = TRUE, !.res = current]
        ELSE tw_new_tab(w, g, file_path)

\* An open_file that loads into the current editor whenever it has no path
open_file_reuses_untitled(w, g, file_path) ==
    LET t == w.tabs[g]
        has == {i \in 1..Len(t.docs) : t.docs[i].path = file_path}
        current == current_editor(w, g)
    IN  IF file_path = NoPath THEN [w EXCEPT !.ret = FALSE, !.res = NoDoc]
        ELSE IF has # {}
        THEN [setCurrentIndex(w, g, Min(has)) EXCEPT !.ret = TRUE, !.res = Min(has)]
        ELSE IF /\ current # NoTabs
                /\ t.docs[current].path = NoPath
                /\ load_file_ok(w.disk, file_path)
        THEN [w EXCEPT !.tabs[g].docs[current] = load_file(w.disk, @, file_path),
                       !.ret = TRUE, !.res = current]
        ELSE tw_new_tab(w, g, file_path)

\* EditorTabWidget.open_file; NoPath is the file dialog closed without a choice
tw_open_file(w, g, file_path) ==
    LET t == w.tabs[g]
        has == {i \in 1..Len(t.docs) : t.docs[i].path = file_path}
        current == current_editor(w, g)
    IN  IF file_path = NoPath THEN [w EXCEPT !.ret = FALSE, !.res = NoDoc]
        ELSE IF has # {}
        THEN [setCurrentIndex(w, g, Min(has)) EXCEPT !.ret = TRUE, !.res = Min(has)]
        ELSE IF /\ current # NoTabs
                /\ t.docs[current].path = NoPath
                /\ ~t.docs[current].mod
                /\ t.docs[current].text = <<>>
                /\ load_file_ok(w.disk, file_path)
        THEN [w EXCEPT !.tabs[g].docs[current] = load_file(w.disk, @, file_path),
                       !.ret = TRUE, !.res = current]
        ELSE tw_new_tab(w, g, file_path)

\* A save_current_as that reports success when the save dialog was closed
save_current_as_reports_success(w, g, sv) ==
    LET current == current_editor(w, g)
        d == w.tabs[g].docs[current]
    IN  IF current = NoTabs THEN [w EXCEPT !.ret = FALSE]
        ELSE IF sv.pick = NoPath THEN [w EXCEPT !.ret = TRUE]
        ELSE [w EXCEPT !.tabs[g].docs[current] = save_file_doc(d, sv.pick, sv.wr),
                       !.disk = save_file_disk(w.disk, d, sv.pick, sv.wr),
                       !.ret = save_file_ok(d, sv.pick, sv.wr)]

\* EditorTabWidget.save_current_as; sv.pick is the path the save dialog
\* returns (NoPath: none), sv.wr whether the write succeeds
tw_save_current_as(w, g, sv) ==
    LET current == current_editor(w, g)
        d == w.tabs[g].docs[current]
    IN  IF current = NoTabs \/ sv.pick = NoPath THEN [w EXCEPT !.ret = FALSE]
        ELSE [w EXCEPT !.tabs[g].docs[current] = save_file_doc(d, sv.pick, sv.wr),
                       !.disk = save_file_disk(w.disk, d, sv.pick, sv.wr),
                       !.ret = save_file_ok(d, sv.pick, sv.wr)]

\* EditorTabWidget.save_current
tw_save_current(w, g, sv) ==
    LET current == current_editor(w, g)
        d == w.tabs[g].docs[current]
    IN  IF current = NoTabs THEN [w EXCEPT !.ret = FALSE]
        ELSE IF d.path # NoPath
        THEN [w EXCEPT !.tabs[g].docs[current] = save_file_doc(d, NoPath, sv.wr),
                       !.disk = save_file_disk(w.disk, d, NoPath, sv.wr),
                       !.ret = save_file_ok(d, NoPath, sv.wr)]
        ELSE tw_save_current_as(w, g, sv)

\* A next_tab that stops at the last tab
next_tab_stops_at_last(w, g) ==
    LET count == Len(w.tabs[g].docs)
    IN  IF count > 1 /\ w.tabs[g].cur < count
        THEN setCurrentIndex(w, g, w.tabs[g].cur + 1)
        ELSE w

\* EditorTabWidget.next_tab
tw_next_tab(w, g) ==
    LET count == Len(w.tabs[g].docs)
    IN  IF count > 1 THEN setCurrentIndex(w, g, (w.tabs[g].cur % count) + 1) ELSE w

\* EditorTabWidget.previous_tab
tw_previous_tab(w, g) ==
    LET count == Len(w.tabs[g].docs)
    IN  IF count > 1 THEN setCurrentIndex(w, g, ((w.tabs[g].cur - 2) % count) + 1) ELSE w

\* ------------------------------------------------------------- SplitContainer
\* The test "if self._active_tabs": false for None and, since PyQt gives
\* QTabWidget a __len__ (its count()), false for a tab group without tabs
has_active_tabs(w) == w.active # NoTabs /\ Len(w.tabs[w.active].docs) > 0

\* SplitContainer._set_active_tabs: active_tabs_changed is emitted, and
\* current_editor_changed if the tab group has tabs and a current editor
_set_active_tabs(w, g) ==
    IF w.active = g THEN w
    ELSE LET w1 == mw_on_active_tabs_changed([w EXCEPT !.active = g], g)
         IN  IF Len(w1.tabs[g].docs) > 0 /\ current_editor(w1, g) # NoTabs
             THEN mw_on_editor_changed(w1, g, current_editor(w1, g))
             ELSE w1

\* The call self._cleanup_empty_splitters() that ends _remove_tab_widget
tree_cleaned(w) == [w EXCEPT !.sp = _cleanup_empty_splitters(w.sp)]

\* A removal that leaves the focus on the tab group it removes
remove_keeps_focus(w, g) ==
    LET w1 == [w EXCEPT !.sp = setParentNone(w.sp, g)]
    IN  tree_cleaned(w1)

\* A removal that forgets to take the tab group out of its splitter
remove_keeps_widget(w, g) ==
    LET remaining == _get_all_tab_widgets(w.sp)
        w2 == IF w.active = g /\ remaining # <<>>
              THEN _set_active_tabs(w, remaining[1])
              ELSE w
    IN  tree_cleaned(w2)

\* SplitContainer._remove_tab_widget
_remove_tab_widget(w, g) ==
    LET w1 == [w EXCEPT !.sp = setParentNone(w.sp, g)]
        remaining == _get_all_tab_widgets(w1.sp)
        w2 == IF w1.active = g /\ remaining # <<>>
              THEN _set_active_tabs(w1, remaining[1])
              ELSE w1
    IN  tree_cleaned(w2)

\* An _on_all_tabs_closed that refills every tab group, the sole one or not
all_tabs_closed_refills(w, g) ==
    IF w.closing THEN w
    ELSE LET w1 == tw_new_tab(w, g, NoPath) IN [w1 EXCEPT !.res = w.res]

\* SplitContainer._on_all_tabs_closed
_on_all_tabs_closed(w, g) ==
    IF w.closing THEN w
    ELSE IF Len(_get_all_tab_widgets(w.sp)) = 1
    THEN LET w1 == tw_new_tab(w, g, NoPath) IN [w1 EXCEPT !.res = w.res]
    ELSE _remove_tab_widget(w, g)

\* The answers of the confirmation prompt (QMessageBox.question); with Save
\* come the path the save dialog returns for an untitled document (NoPath: the
\* dialog is closed) and whether the write succeeds
Cancel == [reply |-> "Cancel", pick |-> NoPath, wr |-> FALSE]

Discard == [reply |-> "Discard", pick |-> NoPath, wr |-> FALSE]

Save(sv) == [reply |-> "Save", pick |-> sv.pick, wr |-> sv.wr]

\* A close_tab that removes the tab although the save failed
close_tab_removes_unsaved(w, g, index, reply) ==
    LET t == w.tabs[g]
        removed(w0) ==
            LET w1 == removeTab(w0, g, index)
                w2 == IF Len(w1.tabs[g].docs) = 0
                      THEN _on_all_tabs_closed([w1 EXCEPT !.emitted = Append(@, g)], g)
                      ELSE w1
            IN  [w2 EXCEPT !.ret = TRUE]
    IN  IF index \notin 1..Len(t.docs) THEN [w EXCEPT !.ret = FALSE]
        ELSE IF ~t.docs[index].mod THEN removed(w)
        ELSE IF reply.reply = "Cancel"
        THEN [w EXCEPT !.ret = FALSE, !.asked = Append(@, "Cancel")]
        ELSE IF reply.reply = "Save"
        THEN removed([tw_save_current(setCurrentIndex(w, g, index), g, reply)
                         EXCEPT !.asked = Append(@, "Saved")])
        ELSE removed([w EXCEPT !.asked = Append(@, "Discard")])

\* EditorTabWidget.close_tab from the prompt's answer on (reply is not read
\* when the document is not modified)
close_tab_reply(w, g, index, reply) ==
    LET t == w.tabs[g]
        removed(w0) ==
            LET w1 == removeTab(w0, g, index)
                w2 == IF Len(w1.tabs[g].docs) = 0
                      THEN _on_all_tabs_closed([w1 EXCEPT !.emitted = Append(@, g)], g)
                      ELSE w1
            IN  [w2 EXCEPT !.ret = TRUE]
    IN  IF index \notin 1..Len(t.docs) THEN [w EXCEPT !.ret = FALSE]
        ELSE IF ~t.docs[index].mod THEN removed(w)
        ELSE IF reply.reply = "Cancel"
        THEN [w EXCEPT !.ret = FALSE, !.asked = Append(@, "Cancel")]
        ELSE IF reply.reply = "Save"
        THEN LET w1 == tw_save_current(setCurrentIndex(w, g, index), g, reply)
             IN  IF ~w1.ret
                 THEN [w1 EXCEPT !.ret = FALSE, !.asked = Append(@, "SaveFailed")]
                 ELSE removed([w1 EXCEPT !.asked = Append(@, "Saved")])
        ELSE removed([w EXCEPT !.asked = Append(@, "Discard")])

\* The prompt of close_tab: asked if the document is modified, answered by the
\* head of w.q (a prompt nobody answers is closed, which is Cancel)
Asks(w, g, index) == index \in 1..Len(w.tabs[g].docs) /\ w.tabs[g].docs[index].mod

Reply(w) == IF w.q = <<>> THEN Cancel ELSE Head(w.q)

Asked(w, g, index) ==
    IF Asks(w, g, index) /\ w.q # <<>> THEN [w EXCEPT !.q = Tail(@)] ELSE w

\* A close_tab that takes Cancel for Discard
close_tab_cancel_discards(w, g, index) ==
    close_tab_reply(Asked(w, g, index), g, index,
                    IF Reply(w).reply = "Cancel" THEN Discard ELSE Reply(w))

\* EditorTabWidget.close_tab
tw_close_tab(w, g, index) == close_tab_reply(Asked(w, g, index), g, index, Reply(w))

LoopCap == 8

\* A close_all_tabs that closes from the back
RECURSIVE close_all_tabs_from_back(_, _)
close_all_tabs_from_back(w, g) ==
    IF Len(w.tabs[g].docs) > 0 /\ w.n < LoopCap
    THEN LET w1 == tw_close_tab([w EXCEPT !.n = @ + 1], g, Len(w.tabs[g].docs))
         IN  IF ~w1.ret THEN [w1 EXCEPT !.ret = FALSE] ELSE close_all_tabs_from_back(w1, g)
    ELSE [w EXCEPT !.ret = TRUE]

\* EditorTabWidget.close_all_tabs
RECURSIVE tw_close_all_tabs(_, _)
tw_close_all_tabs(w, g) ==
    IF Len(w.tabs[g].docs) > 0 /\ w.n < LoopCap
    THEN LET w1 == tw_close_tab([w EXCEPT !.n = @ + 1], g, 1)
         IN  IF ~w1.ret THEN [w1 EXCEPT !.ret = FALSE] ELSE tw_close_all_tabs(w1, g)
    ELSE [w EXCEPT !.ret = TRUE]

\* SplitContainer._split, parent of the same orientation: the new tab group
\* becomes the sibling after current_tabs
split_sibling(w, parent, current_tabs, new_tabs) ==
    LET index == IndexOf(w.sp[parent].lay, current_tabs)
        sp1 == insertWidget(w.sp, parent, index + 1, new_tabs)
    IN  _balance_splitter([w EXCEPT !.sp = sp1], parent)

\* A nested split that leaves current_tabs where it is: the new splitter
\* holds the new tab group alone
split_nested_beside(w, parent, current_tabs, new_tabs, orientation) ==
    LET new_splitter == FreshSplitter(w)
        index == IndexOf(w.sp[parent].lay, current_tabs)
        sp0 == [w.sp EXCEPT ![new_splitter] = [DeadSplitter EXCEPT !.orient = orientation]]
        sp1 == insertWidget(sp0, parent, index, new_splitter)
        sp3 == addWidget(sp1, new_splitter, new_tabs)
    IN  _balance_splitter([w EXCEPT !.sp = sp3], new_splitter)

\* SplitContainer._split, parent of the other orientation: a new splitter
\* takes the place of current_tabs and holds current_tabs and the new tab group
split_nested(w, parent, current_tabs, new_tabs, orientation) ==
    LET new_splitter == FreshSplitter(w)
        index == IndexOf(w.sp[parent].lay, current_tabs)
        sp0 == [w.sp EXCEPT ![new_splitter] = [DeadSplitter EXCEPT !.orient = orientation]]
        sp1 == insertWidget(sp0, parent, index, new_splitter)
        sp2 == addWidget(sp1, new_splitter, current_tabs)
        sp3 == addWidget(sp2, new_splitter, new_tabs)
    IN  _balance_splitter([w EXCEPT !.sp = sp3], new_splitter)

\* SplitContainer._split
_split(w, orientation) ==
    IF ~has_active_tabs(w) THEN w
    ELSE LET current_tabs == w.active
             parent == ParentOf(w.sp, current_tabs)
             new_tabs == FreshTabs(w)
             w1 == tw_init(w, new_tabs)
         IN  _set_active_tabs(
                 IF w.sp[parent].orient = orientation
                 THEN split_sibling(w1, parent, current_tabs, new_tabs)
                 ELSE split_nested(w1, parent, current_tabs, new_tabs, orientation),
                 new_tabs)

\* A close_split that does not look at the number of tab groups
close_split_of_last(w) ==
    IF ~has_active_tabs(w) THEN w ELSE tw_close_all_tabs(w, w.active)

\* A close_split that removes the tab group although a close was refused
close_split_removes_anyway(w) ==
    IF ~has_active_tabs(w) THEN w
    ELSE IF Len(_get_all_tab_widgets(w.sp)) <= 1 THEN w
    ELSE LET w1 == tw_close_all_tabs(w, w.active)
         IN  IF ~w1.ret THEN _remove_tab_widget(w1, w.active) ELSE w1

\* SplitContainer.close_split
close_split(w) ==
    IF ~has_active_tabs(w) THEN w
    ELSE IF Len(_get_all_tab_widgets(w.sp)) <= 1 THEN w
    ELSE tw_close_all_tabs(w, w.active)

\* A focus_next_split that stops at the last tab group
focus_next_split_stops_at_last(w) ==
    LET all_tabs == _get_all_tab_widgets(w.sp)
    IN  IF Len(all_tabs) <= 1 \/ w.active \notin Range(all_tabs) THEN w
        ELSE IF IndexOf(all_tabs, w.active) = Len(all_tabs) THEN w
        ELSE _set_active_tabs(w, all_tabs[IndexOf(all_tabs, w.active) + 1])

\* SplitContainer.focus_next_split
focus_next_split(w) ==
    LET all_tabs == _get_all_tab_widgets(w.sp)
    IN  IF Len(all_tabs) <= 1 \/ w.active \notin Range(all_tabs) THEN w
        ELSE _set_active_tabs(w, all_tabs[(IndexOf(all_tabs, w.active) % Len(all_tabs)) + 1])

\* SplitContainer.focus_previous_split
focus_previous_split(w) ==
    LET all_tabs == _get_all_tab_widgets(w.sp)
    IN  IF Len(all_tabs) <= 1 \/ w.active \notin Range(all_tabs) THEN w
        ELSE _set_active_tabs(w,
                 all_tabs[((IndexOf(all_tabs, w.active) - 2) % Len(all_tabs)) + 1])

\* SplitContainer.close_all_tabs: the loop over self._get_all_tab_widgets()
RECURSIVE close_all_loop(_, _)
close_all_loop(w, all) ==
    IF all = <<>> THEN [w EXCEPT !.ret = TRUE]
    ELSE LET w1 == tw_close_all_tabs(w, Head(all))
         IN  IF ~w1.ret THEN [w1 EXCEPT !.closing = FALSE, !.ret = FALSE]
             ELSE close_all_loop(w1, Tail(all))

\* A close_all_tabs that does not set _closing
close_all_tabs_unmarked(w) ==
    LET w1 == close_all_loop(w, _get_all_tab_widgets(w.sp))
    IN  [w1 EXCEPT !.closing = FALSE]

\* SplitContainer.close_all_tabs
close_all_tabs(w) ==
    LET w1 == close_all_loop([w EXCEPT !.closing = TRUE], _get_all_tab_widgets(w.sp))
    IN  [w1 EXCEPT !.closing = FALSE]

\* ------------------------------------------------------------- searching
\* SpecSearch: the length of the text searched, and the replacements one
\* replace_all is followed for
MaxTextLen == 4
ReplaceCap == 8

\* The characters of the texts searched: a letter in both cases and a space
SearchAlphabet == {"a", "A", " "}

RECURSIVE TextsOfLen(_)
TextsOfLen(n) ==
    IF n = 0 THEN {<<>>}
    ELSE {Append(t, c) : t \in TextsOfLen(n - 1), c \in SearchAlphabet}

SearchTexts == UNION {TextsOfLen(n) : n \in 0..MaxTextLen}

\* What is typed into find_input and into replace_input
Queries == {<<>>, <<"a">>, <<"a", "a">>, <<"a", " ">>, <<" ">>}

Replacements == {<<>>, <<"a", "a">>}

\* Offsets into a text count from 0: the character at offset i is text[i + 1].
\* The texts searched are of one line (one QTextBlock).
Max(S) == CHOOSE x \in S : \A y \in S : x >= y

\* QChar.toLower / str.lower
lower(c) == CASE c = "A" -> "a" [] c = "B" -> "b" [] OTHER -> c

\* QChar.isLetterOrNumber
isLetterOrNumber(c) == c \in {"a", "A", "b", "B"}

\* Whether expression stands in text at offset i (Qt.CaseSensitivity cs)
stands_at(text, expression, i, cs) ==
    /\ i >= 0
    /\ i + Len(expression) <= Len(text)
    /\ \A k \in 1..Len(expression) :
           IF cs THEN text[i + k] = expression[k]
           ELSE lower(text[i + k]) = lower(expression[k])

\* QString.indexOf(expression, offset, cs): the first place at or after offset
indexOf(text, expression, offset, cs) ==
    LET at == {i \in offset..Len(text) : stands_at(text, expression, i, cs)}
    IN  IF at = {} THEN -1 ELSE Min(at)

\* QString.lastIndexOf(expression, offset, cs): the last place at or before
\* offset
lastIndexOf(text, expression, offset, cs) ==
    LET at == {i \in 0..offset : stands_at(text, expression, i, cs)}
    IN  IF at = {} THEN -1 ELSE Max(at)

\* A findInBlock that takes a place whether or not it is a whole word
findInBlock_any_place(text, expression, offset, cs, ww, backward) ==
    IF ~(offset >= 0 /\ offset <= Len(text)) THEN -1
    ELSE IF backward THEN lastIndexOf(text, expression, offset, cs)
    ELSE indexOf(text, expression, offset, cs)

\* findInBlock of QTextDocument.find: the place of the hit, -1 if none.  A
\* place that is not a whole word is passed over, the search going on one
\* character after its end (backward: one before its start)
RECURSIVE findInBlock(_, _, _, _, _, _)
findInBlock(text, expression, offset, cs, ww, backward) ==
    IF ~(offset >= 0 /\ offset <= Len(text)) THEN -1
    ELSE LET idx == IF backward THEN lastIndexOf(text, expression, offset, cs)
                    ELSE indexOf(text, expression, offset, cs)
             end == idx + Len(expression)
         IN  IF idx = -1 THEN -1
             ELSE IF /\ ww
                     /\ \/ idx # 0 /\ isLetterOrNumber(text[idx])
                        \/ end # Len(text) /\ isLetterOrNumber(text[end + 1])
             THEN findInBlock(text, expression, IF backward THEN idx - 1 ELSE end + 1,
                              cs, ww, backward)
             ELSE idx

\* A QTextCursor: anchor and position; the null cursor
NullCursor == [anchor |-> -1, position |-> -1]

isNull(c) == c = NullCursor

selectionStart(c) == IF c.anchor < c.position THEN c.anchor ELSE c.position

selectionEnd(c) == IF c.anchor < c.position THEN c.position ELSE c.anchor

hasSelection(c) == c.anchor # c.position

selectedText(text, c) == SubSeq(text, selectionStart(c) + 1, selectionEnd(c))

\* QTextCursor(document): at the start; after movePosition(End): at the end
StartCursor == [anchor |-> 0, position |-> 0]

EndCursor(text) == [anchor |-> Len(text), position |-> Len(text)]

\* QTextDocument.find(subString, cursor, options): forward from the end of
\* the cursor's selection, backward from one before its start; the cursor
\* returned has the hit selected, its position at the end of the hit
doc_find(text, subString, cursor, cs, ww, backward) ==
    LET from == IF backward THEN selectionStart(cursor) ELSE selectionEnd(cursor)
        pos == IF backward THEN from - 1 ELSE from
        idx == findInBlock(text, subString, pos, cs, ww, backward)
    IN  IF subString = <<>> \/ pos < 0 \/ idx = -1 THEN NullCursor
        ELSE [anchor |-> idx, position |-> idx + Len(subString)]

\* The text after a cursor with the selection [from, to) did insertText(t)
insertText(text, from, to, t) == SubSeq(text, 1, from) \o t \o SubSeq(text, to + 1, Len(text))

\* What Qt does to an offset p of another cursor (of.position = of.anchor told
\* by collapsed) when [from, to) is replaced by added characters: an offset
\* inside goes to from, one behind moves with the text, and one at from moves
\* behind the text inserted if it is the position, or the anchor of a cursor
\* without selection
adjusted(p, from, to, added, moves) ==
    LET q == IF p < from THEN p ELSE IF p < to THEN from ELSE p - (to - from)
    IN  IF q > from \/ (q = from /\ moves) THEN q + added ELSE q

adjustCursor(c, from, to, added) ==
    LET removed == [anchor |-> adjusted(c.anchor, from, to, 0, FALSE),
                    position |-> adjusted(c.position, from, to, 0, FALSE)]
        position == adjusted(c.position, from, to, added, TRUE)
        anchor == adjusted(c.anchor, from, to, added, removed.anchor = removed.position)
    IN  [anchor |-> anchor, position |-> position]

\* The find bar and its editor while an operation of the find bar runs (ret:
\* what it returns; n: the count replace_all returns; finds: the cursors the
\* loop of replace_all found)
Bar(fr, ed) == [find_replace |-> fr, editor |-> ed, ret |-> FALSE, n |-> 0, finds |-> <<>>]

textCursor(ed) == [anchor |-> ed.anchor, position |-> ed.position]

setTextCursor(ed, c) == [ed EXCEPT !.anchor = c.anchor, !.position = c.position]

\* `if not self._editor or not self.find_input.text()`
nothing_to_search(b) ==
    b.find_replace._editor = NoEditor \/ b.find_replace.find_input = <<>>

\* A find_next that forgets the last match when it finds nothing
find_next_forgets(b) ==
    LET fr == b.find_replace
        text == fr.find_input
        cursor == textCursor(b.editor)
        first == doc_find(b.editor.text, text, cursor, fr.case_sensitive, fr.whole_word, FALSE)
        found == IF isNull(first)
                 THEN doc_find(b.editor.text, text, StartCursor, fr.case_sensitive,
                               fr.whole_word, FALSE)
                 ELSE first
    IN  IF nothing_to_search(b) THEN [b EXCEPT !.ret = FALSE]
        ELSE IF ~isNull(found)
        THEN [b EXCEPT !.editor = setTextCursor(@, found),
                       !.find_replace._last_match_position = found.position,
                       !.ret = TRUE]
        ELSE [b EXCEPT !.find_replace._last_match_position = -1, !.ret = FALSE]

\* FindReplaceWidget.find_next
find_next(b) ==
    LET fr == b.find_replace
        text == fr.find_input
        cursor == textCursor(b.editor)
        first == doc_find(b.editor.text, text, cursor, fr.case_sensitive, fr.whole_word, FALSE)
        found == IF isNull(first)
                 THEN doc_find(b.editor.text, text, StartCursor, fr.case_sensitive,
                               fr.whole_word, FALSE)
                 ELSE first
    IN  IF nothing_to_search(b) THEN [b EXCEPT !.ret = FALSE]
        ELSE IF ~isNull(found)
        THEN [b EXCEPT !.editor = setTextCursor(@, found),
                       !.find_replace._last_match_position = found.position,
                       !.ret = TRUE]
        ELSE [b EXCEPT !.ret = FALSE]

\* A find_previous that wraps to the first match instead of the last
find_previous_wraps_to_first(b) ==
    LET fr == b.find_replace
        text == fr.find_input
        cursor == textCursor(b.editor)
        first == doc_find(b.editor.text, text, cursor, fr.case_sensitive, fr.whole_word, TRUE)
        found == IF isNull(first)
                 THEN doc_find(b.editor.text, text, StartCursor, fr.case_sensitive,
                               fr.whole_word, FALSE)
                 ELSE first
    IN  IF nothing_to_search(b) THEN [b EXCEPT !.ret = FALSE]
        ELSE IF ~isNull(found)
        THEN [b EXCEPT !.editor = setTextCursor(@, found),
                       !.find_replace._last_match_position = found.position,
                       !.ret = TRUE]
        ELSE [b EXCEPT !.ret = FALSE]

\* FindReplaceWidget.find_previous
find_previous(b) ==
    LET fr == b.find_replace
        text == fr.find_input
        cursor == textCursor(b.editor)
        first == doc_find(b.editor.text, text, cursor, fr.case_sensitive, fr.whole_word, TRUE)
        found == IF isNull(first)
                 THEN doc_find(b.editor.text, text, EndCursor(b.editor.text),
                               fr.case_sensitive, fr.whole_word, TRUE)
                 ELSE first
    IN  IF nothing_to_search(b) THEN [b EXCEPT !.ret = FALSE]
        ELSE IF ~isNull(found)
        THEN [b EXCEPT !.editor = setTextCursor(@, found),
                       !.find_replace._last_match_position = found.position,
                       !.ret = TRUE]
        ELSE [b EXCEPT !.ret = FALSE]

\* str.lower
lower_str(t) == [k \in 1..Len(t) |-> lower(t[k])]

\* cursor.insertText(t) of a copy of the editor's cursor: the document
\* changes and becomes modified, the editor's own cursor is adjusted
editor_insertText(ed, from, to, t) ==
    LET c == adjustCursor(textCursor(ed), from, to, Len(t))
    IN  [ed EXCEPT !.text = insertText(ed.text, from, to, t), !.mod = TRUE,
                   !.anchor = c.anchor, !.position = c.position]

\* A replace that compares the selection with the query exactly, whatever
\* case_sensitive is
replace_exact_only(b) ==
    LET fr == b.find_replace
        cursor == textCursor(b.editor)
        selected == selectedText(b.editor.text, cursor)
        search == fr.find_input
        matches == selected = search
        b1 == IF hasSelection(cursor) /\ matches
              THEN [b EXCEPT !.editor = editor_insertText(@, selectionStart(cursor),
                                                          selectionEnd(cursor), fr.replace_input)]
              ELSE b
    IN  IF nothing_to_search(b) THEN [b EXCEPT !.ret = FALSE]
        ELSE find_next(b1)

\* FindReplaceWidget.replace
replace(b) ==
    LET fr == b.find_replace
        cursor == textCursor(b.editor)
        selected == selectedText(b.editor.text, cursor)
        search == fr.find_input
        matches == IF fr.case_sensitive THEN selected = search
                   ELSE lower_str(selected) = lower_str(search)
        b1 == IF hasSelection(cursor) /\ matches
              THEN [b EXCEPT !.editor = editor_insertText(@, selectionStart(cursor),
                                                          selectionEnd(cursor), fr.replace_input)]
              ELSE b
    IN  IF nothing_to_search(b) THEN [b EXCEPT !.ret = FALSE]
        ELSE find_next(b1)

\* A loop of replace_all that goes on from the start of the text inserted
\* instead of from its end
RECURSIVE replace_all_loop_rescans(_, _)
replace_all_loop_rescans(b, cursor) ==
    LET fr == b.find_replace
        found == doc_find(b.editor.text, fr.find_input, cursor, fr.case_sensitive,
                          fr.whole_word, FALSE)
    IN  IF isNull(found) \/ b.n >= ReplaceCap THEN b
        ELSE replace_all_loop_rescans(
                 [b EXCEPT !.editor = editor_insertText(@, found.anchor, found.position,
                                                        fr.replace_input),
                           !.n = @ + 1,
                           !.finds = Append(@, found)],
                 [anchor |-> found.anchor, position |-> found.anchor])

\* The loop of FindReplaceWidget.replace_all: cursor is where the next find
\* starts
RECURSIVE replace_all_loop(_, _)
replace_all_loop(b, cursor) ==
    LET fr == b.find_replace
        found == doc_find(b.editor.text, fr.find_input, cursor, fr.case_sensitive,
                          fr.whole_word, FALSE)
        after == found.anchor + Len(fr.replace_input)
    IN  IF isNull(found) \/ b.n >= ReplaceCap THEN b
        ELSE replace_all_loop(
                 [b EXCEPT !.editor = editor_insertText(@, found.anchor, found.position,
                                                        fr.replace_input),
                           !.n = @ + 1,
                           !.finds = Append(@, found)],
                 [anchor |-> after, position |-> after])

\* FindReplaceWidget.replace_all
replace_all(b) ==
    IF nothing_to_search(b) THEN [b EXCEPT !.n = 0]
    ELSE replace_all_loop(b, StartCursor)

\* The loop of FindReplaceWidget._update_match_count: each find starts at
\* the end of the match found before it
RECURSIVE match_count_loop(_, _, _)
match_count_loop(b, cursor, count) ==
    LET fr == b.find_replace
        found == doc_find(b.editor.text, fr.find_input, cursor, fr.case_sensitive,
                          fr.whole_word, FALSE)
    IN  IF isNull(found) \/ count >= ReplaceCap THEN count
        ELSE match_count_loop(b, found, count + 1)

\* What match_label shows without an editor or a query: nothing
NoCount == -1

\* FindReplaceWidget._update_match_count: the number match_label shows
_update_match_count(b) ==
    IF nothing_to_search(b) THEN NoCount ELSE match_count_loop(b, StartCursor, 0)

\* An _on_search_text_changed that does not reset _last_match_position
search_text_changed_keeps_position(b) ==
    IF b.find_replace.find_input # <<>> /\ b.find_replace._editor # NoEditor
    THEN [find_next([b EXCEPT !.editor = setTextCursor(@, StartCursor)]) EXCEPT !.ret = FALSE]
    ELSE b

\* FindReplaceWidget._on_search_text_changed, after find_input has changed
_on_search_text_changed(b) ==
    LET b1 == [b EXCEPT !.find_replace._last_match_position = -1]
    IN  IF b1.find_replace.find_input # <<>> /\ b1.find_replace._editor # NoEditor
        THEN [find_next([b1 EXCEPT !.editor = setTextCursor(@, StartCursor)]) EXCEPT !.ret = FALSE]
        ELSE b1

\* QLineEdit.setText: textChanged is emitted if the text differs
find_input_setText(b, t) ==
    IF b.find_replace.find_input = t THEN b
    ELSE _on_search_text_changed([b EXCEPT !.find_replace.find_input = t])

\* FindReplaceWidget.show_find: a selection of the editor becomes the query
show_find(b) ==
    LET cursor == textCursor(b.editor)
    IN  IF b.find_replace._editor # NoEditor /\ hasSelection(cursor)
        THEN find_input_setText(b, selectedText(b.editor.text, cursor))
        ELSE b

\* ------------------------------------------------------------- lines
\* SpecLines: the length of the text whose lines are moved
MaxLinesLen == 4

\* The characters of the texts of several lines (blocks)
LineAlphabet == {"a", "b", "\n"}

RECURSIVE LinesOfLen(_)
LinesOfLen(n) ==
    IF n = 0 THEN {<<>>}
    ELSE {Append(t, c) : t \in LinesOfLen(n - 1), c \in LineAlphabet}

LineTexts == UNION {LinesOfLen(n) : n \in 0..MaxLinesLen}

\* A QTextCursor of the editor's document is modelled by the editor record
\* itself: its text, anchor and position.  QTextCursor.blockNumber: the
\* block of the position
blockNumber(ed) == Cardinality({i \in 1..ed.position : ed.text[i] = "\n"})

\* The start and the end of the block an offset p is in
StartOfBlock(text, p) == Max({0} \cup {i \in 1..p : text[i] = "\n"})

EndOfBlock(text, p) == Min({Len(text)} \cup {i - 1 : i \in {j \in (p + 1)..Len(text) : text[j] = "\n"}})

\* QTextCursor.movePosition(op, MoveAnchor or KeepAnchor); PreviousBlock in
\* the first block moves nothing
movePosition(ed, op, keep) ==
    LET p == CASE op = "StartOfBlock" -> StartOfBlock(ed.text, ed.position)
               [] op = "EndOfBlock" -> EndOfBlock(ed.text, ed.position)
               [] op = "PreviousBlock" ->
                      IF blockNumber(ed) = 0 THEN ed.position
                      ELSE StartOfBlock(ed.text, StartOfBlock(ed.text, ed.position) - 1)
    IN  [ed EXCEPT !.position = p, !.anchor = IF keep THEN @ ELSE p]

atEnd(ed) == ed.position = Len(ed.text)

\* QTextCursor.insertText(t): the selection is replaced by t, the cursor
\* stands behind it
cursor_insertText(ed, t) ==
    LET from == selectionStart(textCursor(ed))
        to == selectionEnd(textCursor(ed))
    IN  [ed EXCEPT !.text = insertText(ed.text, from, to, t), !.mod = TRUE,
                   !.anchor = from + Len(t), !.position = from + Len(t)]

\* QTextCursor.removeSelectedText
removeSelectedText(ed) ==
    IF hasSelection(textCursor(ed)) THEN cursor_insertText(ed, <<>>) ELSE ed

\* QTextCursor.deletePreviousChar and deleteChar
deletePreviousChar(ed) ==
    IF hasSelection(textCursor(ed)) THEN removeSelectedText(ed)
    ELSE IF ed.position = 0 THEN ed
    ELSE removeSelectedText([ed EXCEPT !.anchor = ed.position - 1])

deleteChar(ed) ==
    IF hasSelection(textCursor(ed)) THEN removeSelectedText(ed)
    ELSE IF atEnd(ed) THEN ed
    ELSE removeSelectedText([ed EXCEPT !.anchor = ed.position + 1])

\* The steps of move_line_up behind the test of the first line
move_line_up_steps(ed) ==
    LET c1 == movePosition(ed, "StartOfBlock", FALSE)
        c2 == movePosition(c1, "EndOfBlock", TRUE)
        line_text == selectedText(c2.text, textCursor(c2))
        c3 == removeSelectedText(c2)
        c4 == deletePreviousChar(c3)
        c5 == movePosition(c4, "StartOfBlock", FALSE)
        c6 == cursor_insertText(c5, line_text \o <<"\n">>)
    IN  movePosition(c6, "PreviousBlock", FALSE)

\* A move_line_up without the test of the first line
move_line_up_unguarded(ed) == move_line_up_steps(ed)

\* TextEditor.move_line_up
move_line_up(ed) ==
    IF blockNumber(ed) = 0 THEN ed ELSE move_line_up_steps(ed)

\* TextEditor.move_line_down
move_line_down(ed) ==
    LET c0 == movePosition(ed, "EndOfBlock", FALSE)
        c1 == movePosition(c0, "StartOfBlock", FALSE)
        c2 == movePosition(c1, "EndOfBlock", TRUE)
        line_text == selectedText(c2.text, textCursor(c2))
        c3 == removeSelectedText(c2)
        c4 == deleteChar(c3)
        c5 == movePosition(c4, "EndOfBlock", FALSE)
    IN  IF atEnd(c0) THEN ed
        ELSE cursor_insertText(c5, <<"\n">> \o line_text)

\* ------------------------------------------------------------- inputs
\* What a save can meet: the path the save dialog returns for an untitled
\* document (NoPath: the dialog is closed) and whether the write succeeds
SaveCases(L) == [pick : L.paths \cup {NoPath}, wr : BOOLEAN]

\* The cases the commands are run with: a save whose write fails changes
\* nothing whatever the dialog returned, and a save whose write succeeds but
\* whose dialog was closed is, for a document with a path, the save of that path
SaveInputs(L) ==
    {[pick |-> p, wr |-> TRUE] : p \in L.paths} \cup {[pick |-> NoPath, wr |-> FALSE]}

Answers(L) == {Cancel, Discard} \cup {Save(sv) : sv \in SaveInputs(L)}

\* One answer for each prompt a command can come to ask
AnswerSeqs(L, k) == [1..k -> Answers(L)]

Modified(tb, g) == {i \in 1..Len(tb[g].docs) : tb[g].docs[i].mod}

AllModified(tb) == {<<g, i>> \in GroupIds \X (1..TopDocs) : i \in Modified(tb, g)}

CountDocs(tb) ==
    Cardinality({<<g, i>> \in GroupIds \X (1..TopDocs) : i <= Len(tb[g].docs)})

\* A document that is not as TextEditor() makes it
Rich(d) == d # TextEditor

\* The size of a state: its tab groups, the documents a tab group holds
\* beyond its first, and the documents that are not pristine
Load(tb, sp) ==
    Cardinality(Leaves(sp))
    + Cardinality({<<g, i>> \in GroupIds \X (2..TopDocs) : i <= Len(tb[g].docs)})
    + Cardinality({<<g, i>> \in GroupIds \X (1..TopDocs) :
                      i <= Len(tb[g].docs) /\ Rich(tb[g].docs[i])})

\* The splitters under n in layout pre-order
RECURSIVE SplitterSeq(_, _)
RECURSIVE SplitterSeqs(_, _)
SplitterSeq(sp, n) == IF IsSplitter(n) THEN <<n>> \o SplitterSeqs(sp, sp[n].lay) ELSE <<>>

SplitterSeqs(sp, ks) ==
    IF ks = <<>> THEN <<>> ELSE SplitterSeq(sp, Head(ks)) \o SplitterSeqs(sp, Tail(ks))

\* Between commands the objects are named by their place in the layout: the
\* tab groups 1, 2, ... from left to right and top to bottom, the splitters
\* 0, -1, ... in pre-order (the names carry no meaning, and every command
\* treats all names alike).  A tab group that left the tree loses its name; a
\* reference to it gets the first name that is free.
Canon(w) ==
    LET order == VisualLeaves(w.sp, root_splitter)
        sorder == SplitterSeq(w.sp, root_splitter)
        ren(n) == IF IsSplitter(n) THEN 1 - IndexOf(sorder, n)
                  ELSE IF n \in Range(order) THEN IndexOf(order, n)
                  ELSE Len(order) + 1
        renseq(ks) == [i \in 1..Len(ks) |-> ren(ks[i])]
    IN  [w EXCEPT
            !.tabs = [g \in GroupIds |-> IF g <= Len(order) THEN w.tabs[order[g]] ELSE DeadTabs],
            !.sp = [s \in SplitIds |->
                       IF 1 - s <= Len(sorder)
                       THEN [orient |-> w.sp[sorder[1 - s]].orient,
                             lay |-> renseq(w.sp[sorder[1 - s]].lay),
                             kids |-> renseq(w.sp[sorder[1 - s]].kids)]
                       ELSE DeadSplitter],
            !.active = IF w.active = NoTabs THEN NoTabs ELSE ren(w.active),
            !.find_replace._editor = IF @[1] = 0 THEN @ ELSE <<ren(@[1]), @[2]>>]

\* The command that leads to w0 is taken if the state stays within the limits
\* or does not grow
Commit(L, w0) ==
    \E w \in {Canon(w0)} :
        /\ Load(w.tabs, w.sp) <= L.load \/ Load(w.tabs, w.sp) <= Load(tabs, splitters)
        /\ tabs' = w.tabs
        /\ splitters' = w.sp
        /\ active' = w.active
        /\ closing' = w.closing
        /\ disk' = w.disk
        /\ find_replace' = w.find_replace
        /\ UNCHANGED <<window, lone_editor>>

\* ------------------------------------------------------------- Init
\* SplitContainer.__init__ / _setup_ui: a horizontal root splitter holding one
\* tab group, which holds one empty tab and is the active one
InitTabs == [g \in GroupIds |-> IF g = 1 THEN [docs |-> <<TextEditor>>, cur |-> 1] ELSE DeadTabs]

InitSplitters ==
    [s \in SplitIds |-> IF s = root_splitter
                        THEN [orient |-> "Horizontal", lay |-> <<1>>, kids |-> <<1>>]
                        ELSE DeadSplitter]

Start(L) ==
    /\ tabs = InitTabs
    /\ splitters = InitSplitters
    /\ active = 1
    /\ closing = FALSE
    /\ disk \in [L.paths -> L.files]
    /\ window = L.window
    /\ find_replace = FindReplaceWidget
    /\ lone_editor = QPlainTextEdit(<<>>)

\* ------------------------------------------------------------- commands
\* SplitContainer.new_tab
new_tab(w) == IF has_active_tabs(w) THEN tw_new_tab(w, w.active, NoPath) ELSE w

NewTab(L) ==
    /\ CountDocs(tabs) < L.docs
    /\ Commit(L, new_tab(World(<<>>)))

\* SplitContainer.open_file / open_file_path
open_file(w, file_path) ==
    IF has_active_tabs(w) THEN tw_open_file(w, w.active, file_path) ELSE w

OpenFile(L) ==
    /\ CountDocs(tabs) < L.docs
    /\ \E w \in {open_file(World(<<>>), p) : p \in L.paths \cup {NoPath}} : Commit(L, w)

\* SplitContainer.save_current
save_current(w, sv) == IF has_active_tabs(w) THEN tw_save_current(w, w.active, sv) ELSE w

SaveCurrent(L) == \E w \in {save_current(World(<<>>), sv) : sv \in SaveInputs(L)} : Commit(L, w)

\* SplitContainer.save_current_as
save_current_as(w, sv) ==
    IF has_active_tabs(w) THEN tw_save_current_as(w, w.active, sv) ELSE w

SaveCurrentAs(L) ==
    \E w \in {save_current_as(World(<<>>), sv) : sv \in SaveInputs(L)} : Commit(L, w)

\* SplitContainer.close_current_tab
close_current_tab(w) ==
    IF has_active_tabs(w) THEN tw_close_tab(w, w.active, w.tabs[w.active].cur)
    ELSE [w EXCEPT !.ret = FALSE]

CloseCurrentTab(L) ==
    \E q \in AnswerSeqs(L, IF active # NoTabs /\ tabs[active].cur \in Modified(tabs, active)
                            THEN 1 ELSE 0) :
        Commit(L, close_current_tab(World(q)))

\* QTabWidget.tabCloseRequested -> EditorTabWidget.close_tab, on any tab of
\* any tab group of the tree
TabCloseRequested(L) ==
    \E g \in Leaves(splitters) : \E index \in 1..Len(tabs[g].docs) :
        \E q \in AnswerSeqs(L, IF index \in Modified(tabs, g) THEN 1 ELSE 0) :
            Commit(L, tw_close_tab(World(q), g, index))

\* SplitContainer.close_all_tabs
CloseAllTabs(L) ==
    \E q \in AnswerSeqs(L, Cardinality(AllModified(tabs))) :
        Commit(L, close_all_tabs(World(q)))

\* SplitContainer.split_horizontal
SplitHorizontal(L) ==
    /\ Cardinality(Leaves(splitters)) < L.groups
    /\ CountDocs(tabs) < L.docs
    /\ Commit(L, _split(World(<<>>), "Horizontal"))

\* SplitContainer.split_vertical
SplitVertical(L) ==
    /\ Cardinality(Leaves(splitters)) < L.groups
    /\ CountDocs(tabs) < L.docs
    /\ Commit(L, _split(World(<<>>), "Vertical"))

\* SplitContainer.close_split
CloseSplit(L) ==
    \E q \in AnswerSeqs(L, IF active # NoTabs THEN Cardinality(Modified(tabs, active)) ELSE 0) :
        Commit(L, close_split(World(q)))

\* SplitContainer.focus_next_split
FocusNextSplit(L) == \E w \in {focus_next_split(World(<<>>))} : Commit(L, w)

\* SplitContainer.focus_previous_split
FocusPreviousSplit(L) == \E w \in {focus_previous_split(World(<<>>))} : Commit(L, w)

\* SplitContainer.next_tab
next_tab(w) == IF has_active_tabs(w) THEN tw_next_tab(w, w.active) ELSE w

NextTab(L) == \E w \in {next_tab(World(<<>>))} : Commit(L, w)

\* SplitContainer.previous_tab
previous_tab(w) == IF has_active_tabs(w) THEN tw_previous_tab(w, w.active) ELSE w

PreviousTab(L) == \E w \in {previous_tab(World(<<>>))} : Commit(L, w)

\* SplitContainer._on_tabs_focused: a tab group of the tree receives focus
_on_tabs_focused(w, g) == _set_active_tabs(w, g)

FocusIn(L) == \E g \in Leaves(splitters) : Commit(L, _on_tabs_focused(World(<<>>), g))

\* The user selects a tab of a tab group (QTabWidget.setCurrentIndex)
TabBarClicked(L) ==
    \E g \in Leaves(splitters) : \E index \in 1..Len(tabs[g].docs) :
        Commit(L, setCurrentIndex(World(<<>>), g, index))

\* The user edits the text of the editor a tab group shows: the Qt document
\* becomes modified
edit(w, g, t) ==
    [w EXCEPT !.tabs[g].docs[w.tabs[g].cur].text = t,
              !.tabs[g].docs[w.tabs[g].cur].mod = TRUE]

Edit(L) ==
    \E g \in Leaves(splitters) : \E t \in L.texts :
        /\ tabs[g].cur # NoTabs
        /\ Commit(L, edit(World(<<>>), g, t))

Step(L) ==
    \/ NewTab(L)
    \/ OpenFile(L)
    \/ SaveCurrent(L)
    \/ SaveCurrentAs(L)
    \/ CloseCurrentTab(L)
    \/ TabCloseRequested(L)
    \/ CloseAllTabs(L)
    \/ SplitHorizontal(L)
    \/ SplitVertical(L)
    \/ CloseSplit(L)
    \/ FocusNextSplit(L)
    \/ FocusPreviousSplit(L)
    \/ NextTab(L)
    \/ PreviousTab(L)
    \/ FocusIn(L)
    \/ TabBarClicked(L)
    \/ Edit(L)

\* SplitContainer.current_editor
sc_current_editor(w) ==
    IF has_active_tabs(w) /\ current_editor(w, w.active) # NoTabs
    THEN <<w.active, current_editor(w, w.active)>>
    ELSE NoEditor

\* MainWindow._show_find: the find bar is bound to what the SplitContainer
\* reports as its current editor, None included
_show_find(w) == [w EXCEPT !.find_replace = set_editor(@, sc_current_editor(w))]

ShowFind(L) == window /\ Commit(L, _show_find(World(<<>>)))

Init == Start(Main)

Next == Step(Main)

Spec == Init /\ [][Next]_vars

InitFiles == Start(Files)

NextFiles == Step(Files)

SpecFiles == InitFiles /\ [][NextFiles]_vars

\* MainWindow.__init__: the SplitContainer is built, with its first tab group
\* and tab, before its signals are connected to the find bar
InitTree == Start(Tree)

NextTree == Step(Tree)

SpecTree == InitTree /\ [][NextTree]_vars

InitWindow == Start(Window)

NextWindow == Step(Window) \/ ShowFind(Window)

SpecWindow == InitWindow /\ [][NextWindow]_vars

\* ------------------------------------------------------------- the find bar
\* The find bar and a TextEditor that is in no tab group, as the fixtures of
\* tests/test_find_replace.py make them; the SplitContainer is not used
InitSearch ==
    /\ tabs = InitTabs
    /\ splitters = InitSplitters
    /\ active = 1
    /\ closing = FALSE
    /\ disk = [p \in Main.paths |-> NoFile]
    /\ window = FALSE
    /\ find_replace = FindReplaceWidget
    /\ lone_editor \in {QPlainTextEdit(t) : t \in SearchTexts}

\* An operation of the find bar is taken if the text stays within the length
CommitBar(b0) ==
    \E b \in {b0} :
        /\ Len(b.editor.text) <= MaxTextLen
        /\ find_replace' = b.find_replace
        /\ lone_editor' = b.editor
        /\ UNCHANGED <<tabs, splitters, active, closing, disk, window>>

TheBar == Bar(find_replace, lone_editor)

\* widget.set_editor(editor), and set_editor(None) as MainWindow._show_find
\* does it when there is no current editor
SetEditor ==
    \E e \in {LoneEditor, NoEditor} :
        CommitBar([TheBar EXCEPT !.find_replace = set_editor(@, e)])

\* The user types into find_input
TypeQuery == \E t \in Queries : CommitBar(find_input_setText(TheBar, t))

\* The user types into replace_input
TypeReplacement ==
    \E t \in Replacements : CommitBar([TheBar EXCEPT !.find_replace.replace_input = t])

ToggleCaseSensitive == CommitBar([TheBar EXCEPT !.find_replace.case_sensitive = ~@])

ToggleWholeWord == CommitBar([TheBar EXCEPT !.find_replace.whole_word = ~@])

\* The user clicks into the text
MoveCursor ==
    \E p \in 0..Len(lone_editor.text) :
        CommitBar([TheBar EXCEPT !.editor = setTextCursor(@, [anchor |-> p, position |-> p])])

FindNext == CommitBar(find_next(TheBar))

FindPrevious == CommitBar(find_previous(TheBar))

Replace == CommitBar(replace(TheBar))

ReplaceAll == CommitBar(replace_all(TheBar))

\* FindReplaceWidget.show_find
ShowFindBar == CommitBar(show_find(TheBar))

NextSearch ==
    \/ SetEditor
    \/ TypeQuery
    \/ TypeReplacement
    \/ ToggleCaseSensitive
    \/ ToggleWholeWord
    \/ MoveCursor
    \/ FindNext
    \/ FindPrevious
    \/ Replace
    \/ ReplaceAll
    \/ ShowFindBar

SpecSearch == InitSearch /\ [][NextSearch]_vars

\* The find bar on texts of identifiers: a letter in both cases and the
\* underscore
MaxWordLen == 3

WordAlphabet == {"a", "A", "_"}

RECURSIVE WordsOfLen(_)
WordsOfLen(n) ==
    IF n = 0 THEN {<<>>}
    ELSE {Append(t, c) : t \in WordsOfLen(n - 1), c \in WordAlphabet}

WordTexts == UNION {WordsOfLen(n) : n \in 0..MaxWordLen}

InitWords ==
    /\ tabs = InitTabs
    /\ splitters = InitSplitters
    /\ active = 1
    /\ closing = FALSE
    /\ disk = [p \in Main.paths |-> NoFile]
    /\ window = FALSE
    /\ find_replace = FindReplaceWidget
    /\ lone_editor \in {QPlainTextEdit(t) : t \in WordTexts}

SpecWords == InitWords /\ [][NextSearch]_vars

\* ------------------------------------------------------------- the lines
\* A TextEditor with a text of several lines, as the fixtures of
\* tests/test_editor.py make it
InitLines ==
    /\ tabs = InitTabs
    /\ splitters = InitSplitters
    /\ active = 1
    /\ closing = FALSE
    /\ disk = [p \in Main.paths |-> NoFile]
    /\ window = FALSE
    /\ find_replace = FindReplaceWidget
    /\ lone_editor \in {QPlainTextEdit(t) : t \in LineTexts}

\* The user puts the cursor somewhere or selects a part of the text
SelectText ==
    \E a \in 0..Len(lone_editor.text), p \in 0..Len(lone_editor.text) :
        CommitBar([TheBar EXCEPT !.editor = setTextCursor(@, [anchor |-> a, position |-> p])])

MoveLineUp == CommitBar([TheBar EXCEPT !.editor = move_line_up(@)])

MoveLineDown == CommitBar([TheBar EXCEPT !.editor = move_line_down(@)])

NextLines == SelectText \/ MoveLineUp \/ MoveLineDown

SpecLines == InitLines /\ [][NextLines]_vars

\* ------------------------------------------------------------- properties
\* The documents of every tab group
Docs(tb) == [g \in GroupIds |-> tb[g].docs]

Splits(sp) == SplittersUnder(sp, root_splitter)

\* No splitter other than root_splitter holds fewer than two widgets, and
\* root_splitter holds at least one
Simplified(sp) ==
    /\ Len(sp[root_splitter].lay) >= 1
    /\ \A s \in Splits(sp) \ {root_splitter} : Len(sp[s].lay) >= 2

\* Every answer a prompt can get, with every case of the save that follows
AllAnswers == {Cancel, Discard} \cup {Save(sv) : sv \in SaveCases(Main)}

\* The save that follows the answer Save fails: the write fails, or the
\* document has no path and the save dialog returns none
SaveFails(d, sv) == ~sv.wr \/ (d.path = NoPath /\ sv.pick = NoPath)

\* The document d as a successful save with sv leaves it
SavedAs(d, sv) ==
    [d EXCEPT !.path = IF sv.pick # NoPath /\ d.path = NoPath THEN sv.pick ELSE d.path,
              !.mod = FALSE]

\* C1: between any two commands or events the focused tab group is not None
\* and is a tab group of the tree under root_splitter (so the tree has a tab
\* group, and a removal of the focused tab group re-points the focus).
C1_FocusedGroupInTree == active # NoTabs /\ active \in Leaves(splitters)

\* C1, its case: close_split removes the focused tab group and the focus moves
\* to a tab group that is still in the tree
C1_FocusRepointed ==
    /\ Cardinality(Leaves(splitters)) > 1
    /\ LET w == close_split(World(<<>>))
       IN  /\ active \notin Leaves(w.sp)
           /\ w.active # active
           /\ w.active \in Leaves(w.sp)

\* C2: between any two commands no tab group of the tree has zero documents.
C2_NoEmptyGroup == \A g \in Leaves(splitters) : Len(tabs[g].docs) > 0

\* C3 as stated: whenever a tab group is removed from a tree of several
\* (_remove_tab_widget, which ends with the cleanup), every splitter reachable
\* from root_splitter, root_splitter included, has at least two children.
C3_NoSplitUnderTwo ==
    \A g \in Leaves(splitters) :
        Cardinality(Leaves(splitters)) > 1 =>
            LET w == _remove_tab_widget(World(<<>>), g)
            IN  \A s \in Splits(w.sp) : Len(w.sp[s].lay) >= 2

\* C3 amended: whenever a tab group is removed from a tree of several, every
\* splitter reachable from root_splitter other than root_splitter itself has
\* at least two children, and root_splitter has at least one.
C3_NoInnerSplitUnderTwo ==
    \A g \in Leaves(splitters) :
        Cardinality(Leaves(splitters)) > 1 =>
            LET w == _remove_tab_widget(World(<<>>), g)
            IN  /\ Simplified(w.sp)
                /\ Leaves(w.sp) = Leaves(splitters) \ {g}

\* C3, its case: the removal leaves a splitter with one child, which the
\* cleanup replaces by that child
C3_SplitCollapsed ==
    \E g \in Leaves(splitters) :
        /\ Cardinality(Leaves(splitters)) > 2
        /\ LET w == _remove_tab_widget(World(<<>>), g)
           IN  /\ Cardinality(Splits(w.sp)) < Cardinality(Splits(splitters))
               /\ Cardinality(Splits(w.sp)) > 1

\* C4: close_tab(index) on a modified document, the prompt answered Cancel,
\* returns False and changes nothing: not the documents, their count, the
\* current index or any document's fields of any tab group, not the tree, not
\* the focus, not the files; all_tabs_closed is not emitted.
C4_CancelChangesNothing ==
    \A g \in Leaves(splitters) : \A index \in Modified(tabs, g) :
        LET w == tw_close_tab(World(<<Cancel>>), g, index)
        IN  /\ ~w.ret
            /\ w.asked = <<"Cancel">>
            /\ w.tabs = tabs
            /\ w.gone = <<>>
            /\ w.emitted = <<>>
            /\ w.sp = splitters
            /\ w.active = active
            /\ w.disk = disk

\* C4, its case: the close of a modified document that is not the current
\* one of its tab group is cancelled
C4_CancelledClose ==
    \E g \in Leaves(splitters) : \E index \in Modified(tabs, g) :
        /\ index # tabs[g].cur
        /\ LET w == tw_close_tab(World(<<Cancel>>), g, index)
           IN  ~w.ret /\ w.asked = <<"Cancel">> /\ w.tabs[g].cur = tabs[g].cur

\* What "the document at index was removed" means for the result w of a close
\* in tab group g, d being the document as it was when it left
Removed(w, g, index, d) ==
    /\ w.ret
    /\ w.gone = <<d>>
    /\ Len(tabs[g].docs) > 1 => w.tabs[g].docs = RemoveAt(tabs[g].docs, index)
    /\ Len(tabs[g].docs) = 1 => (g \notin Leaves(w.sp) \/ w.tabs[g].docs = <<TextEditor>>)

\* C5: close_tab(index) on a modified document, the prompt answered Save: if
\* the save fails (the write fails, or the document has no path and the save
\* dialog returns none) the close is aborted, no document is removed, the
\* documents of every tab group are as before and the document is still
\* modified; if the save succeeds, or the prompt is answered Discard, the
\* document is removed.
C5_FailedSaveAbortsClose ==
    \A g \in Leaves(splitters) : \A index \in Modified(tabs, g) :
        LET d == tabs[g].docs[index]
        IN  /\ \A sv \in SaveCases(Main) :
                   LET w == tw_close_tab(World(<<Save(sv)>>), g, index)
                   IN  IF SaveFails(d, sv)
                       THEN /\ ~w.ret
                            /\ w.gone = <<>>
                            /\ Docs(w.tabs) = Docs(tabs)
                            /\ w.tabs[g].docs[index].mod
                            /\ w.sp = splitters
                            /\ w.disk = disk
                       ELSE Removed(w, g, index, SavedAs(d, sv))
            /\ Removed(tw_close_tab(World(<<Discard>>), g, index), g, index, d)

\* C5, its case: a modified document without a path, whose close is aborted
\* when the save dialog is closed and goes through when it returns a path
C5_SaveFailedAndSaved ==
    \E g \in Leaves(splitters) : \E index \in Modified(tabs, g) : \E p \in Main.paths :
        /\ tabs[g].docs[index].path = NoPath
        /\ Len(tabs[g].docs) > 1
        /\ tw_close_tab(World(<<Save([pick |-> NoPath, wr |-> TRUE])>>), g, index).asked
               = <<"SaveFailed">>
        /\ tw_close_tab(World(<<Save([pick |-> p, wr |-> TRUE])>>), g, index).asked
               = <<"Saved">>
        /\ Len(tw_close_tab(World(<<Save([pick |-> p, wr |-> TRUE])>>), g, index).tabs[g].docs)
               = Len(tabs[g].docs) - 1

\* A document leaves by a close as it was, or saved first
ClosedAs(d, e) ==
    \/ e = d
    \/ d.mod /\ ~e.mod /\ e.text = d.text /\ (d.path # NoPath => e.path = d.path)

Refused == {"Cancel", "SaveFailed"}

\* C6: EditorTabWidget.close_all_tabs, as SplitContainer calls it (within
\* close_all_tabs, or from close_split in a tree of several tab groups), for
\* every sequence of answers: the documents removed are the first k of the tab
\* group, in their order; no close but the last asked is refused; it returns
\* False exactly when that last one is refused (Cancel, or a save that fails),
\* and then document k+1, a modified one, and all after it are what the tab
\* group holds, in their order; it returns True only with all documents gone.
C6_CloseAllFrontToBack ==
    \A g \in Leaves(splitters) : \A sweep \in BOOLEAN :
        (sweep \/ Cardinality(Leaves(splitters)) > 1) =>
            \A q \in [1..Cardinality(Modified(tabs, g)) -> AllAnswers] :
                LET w == tw_close_all_tabs([World(q) EXCEPT !.closing = sweep], g)
                    before == tabs[g].docs
                    k == Len(w.gone)
                    asks == Len(w.asked)
                IN  /\ k <= Len(before)
                    /\ \A j \in 1..k : ClosedAs(before[j], w.gone[j])
                    /\ \A m \in 1..(asks - 1) : w.asked[m] \notin Refused
                    /\ w.ret <=> (asks = 0 \/ w.asked[asks] \notin Refused)
                    /\ w.ret => k = Len(before) /\ w.tabs[g].docs = <<>>
                    /\ ~w.ret =>
                           /\ k < Len(before)
                           /\ before[k + 1].mod
                           /\ g \in Leaves(w.sp)
                           /\ w.tabs[g].docs = SubSeq(before, k + 1, Len(before))

\* C6, its case: a tab group of three documents whose first is closed, whose
\* second is cancelled and whose third is not reached
C6_StoppedAtSecond ==
    \E g \in Leaves(splitters) :
        /\ Len(tabs[g].docs) = 3
        /\ LET w == tw_close_all_tabs([World(<<Cancel>>) EXCEPT !.closing = TRUE], g)
           IN  /\ ~w.ret
               /\ w.gone = <<tabs[g].docs[1]>>
               /\ w.tabs[g].docs = <<tabs[g].docs[2], tabs[g].docs[3]>>

\* C7: closing all documents of a tab group whose documents are all
\* unmodified removes all of them (from close_split in a tree of several tab
\* groups; by close_all_tabs for the sole tab group), and the sole tab group
\* ends with exactly one fresh document.
C7_SoleGroupRefilled ==
    \A g \in Leaves(splitters) :
        Modified(tabs, g) = {} =>
            /\ Cardinality(Leaves(splitters)) > 1 =>
                   Len(tw_close_all_tabs(World(<<>>), g).gone) = Len(tabs[g].docs)
            /\ Leaves(splitters) = {g} =>
                   LET w == close_all_tabs(World(<<>>))
                   IN  /\ w.ret
                       /\ Len(w.gone) = Len(tabs[g].docs)
                       /\ w.tabs[g].docs = <<TextEditor>>

\* C8: close_tab on the only document of a tab group, outside close_all_tabs,
\* when it goes through (the document unmodified, or Discard, or a save that
\* succeeds): all_tabs_closed is emitted once; the sole tab group of the tree
\* stays, the tree and the focus as they were, holding one fresh document;
\* any other tab group leaves the tree, the other tab groups stay, the tree is
\* simplified, and no other tab group's documents or current index change.
C8_EmptiedGroupRefilledOrRemoved ==
    \A g \in Leaves(splitters) : \A reply \in AllAnswers :
        Len(tabs[g].docs) = 1 =>
            LET w == tw_close_tab(World(<<reply>>), g, 1)
            IN  w.ret =>
                    /\ w.emitted = <<g>>
                    /\ Len(w.gone) = 1
                    /\ IF Leaves(splitters) = {g}
                       THEN /\ w.sp = splitters
                            /\ w.active = active
                            /\ w.tabs[g] = [docs |-> <<TextEditor>>, cur |-> 1]
                       ELSE /\ Leaves(w.sp) = Leaves(splitters) \ {g}
                            /\ Simplified(w.sp)
                            /\ \A h \in Leaves(splitters) \ {g} : w.tabs[h] = tabs[h]

\* C8, its case: the only document of one of three tab groups, a modified
\* one, is closed with Discard; the tab group leaves the tree and its splitter
\* with it
C8_GroupRemoved ==
    \E g \in Leaves(splitters) :
        /\ Cardinality(Leaves(splitters)) = 3
        /\ Len(tabs[g].docs) = 1
        /\ tabs[g].docs[1].mod
        /\ LET w == tw_close_tab(World(<<Discard>>), g, 1)
           IN  /\ w.ret
               /\ g \notin Leaves(w.sp)
               /\ Cardinality(Leaves(w.sp)) = 2
               /\ Cardinality(Splits(w.sp)) < Cardinality(Splits(splitters))

\* C9: in every state, for both orientations, a split followed at once by
\* close_split leaves the tree with the tab groups it had before the split,
\* each with the documents and the current index it had; the split of a
\* focused tab group that holds a tab adds one tab group, the new one, and
\* focuses it, so that it is the one close_split closes.
C9_SplitThenCloseSplit ==
    \A o \in Orientations :
        LET w1 == _split(World(<<>>), o)
            w == close_split(w1)
        IN  /\ has_active_tabs(World(<<>>)) =>
                   /\ w1.active \notin Leaves(splitters)
                   /\ Leaves(w1.sp) = Leaves(splitters) \cup {w1.active}
            /\ Leaves(w.sp) = Leaves(splitters)
            /\ \A g \in Leaves(splitters) : w.tabs[g] = tabs[g]

\* C9, its case: in a tree of several tab groups the split makes a new
\* splitter, and close_split takes the new tab group and the splitter away
C9_SplitUndone ==
    \E o \in Orientations :
        /\ Cardinality(Leaves(splitters)) > 1
        /\ splitters[ParentOf(splitters, active)].orient # o
        /\ LET w1 == _split(World(<<>>), o)
               w == close_split(w1)
           IN  /\ Cardinality(Splits(w1.sp)) = Cardinality(Splits(splitters)) + 1
               /\ Splits(w.sp) = Splits(splitters)
               /\ Leaves(w.sp) = Leaves(splitters)

\* What C10 says of the split of the focused tab group in orientation o
InsertsSibling(o) ==
    LET parent == ParentOf(splitters, active)
        lay == splitters[parent].lay
        at == IndexOf(lay, active)
        w == _split(World(<<>>), o)
        new == w.active
    IN  /\ new \notin Leaves(splitters)
        /\ Leaves(w.sp) = Leaves(splitters) \cup {new}
        /\ Splits(w.sp) = Splits(splitters)
        /\ \A s \in Splits(splitters) :
               /\ w.sp[s].orient = splitters[s].orient
               /\ s # parent => w.sp[s].lay = splitters[s].lay
        /\ w.sp[parent].lay = SubSeq(lay, 1, at) \o <<new>> \o SubSeq(lay, at + 1, Len(lay))
        /\ Len(w.sized) = 1
        /\ w.sized[1].splitter = parent
        /\ Len(w.sized[1].sizes) = Len(lay) + 1
        /\ \A i, j \in 1..(Len(lay) + 1) : w.sized[1].sizes[i] = w.sized[1].sizes[j]

\* C10: a split in the orientation of the splitter that holds the focused tab
\* group makes no new splitter: the splitters are those before, all but that
\* one with their children as before; that one gets the new tab group as the
\* child right after the focused one, its other children in their order; and
\* one setSizes call gives all its children the same size.
C10_SameOrientationInserts ==
    \A o \in Orientations :
        splitters[ParentOf(splitters, active)].orient = o => InsertsSibling(o)

\* C10 where the focused tab group holds a tab
C10_InsertsBesideNonEmpty ==
    \A o \in Orientations :
        (has_active_tabs(World(<<>>)) /\ splitters[ParentOf(splitters, active)].orient = o)
            => InsertsSibling(o)

\* C10, a case of it: the focused tab group is not the last child of its
\* splitter, and the new tab group comes between it and the next child
C10_InsertedBetween ==
    \E o \in Orientations :
        LET parent == ParentOf(splitters, active)
            lay == splitters[parent].lay
            at == IndexOf(lay, active)
            w == _split(World(<<>>), o)
        IN  /\ splitters[parent].orient = o
            /\ at < Len(lay)
            /\ w.sp[parent].lay[at + 1] = w.active
            /\ w.sp[parent].lay[at + 2] = lay[at + 1]
            /\ Len(w.sized) = 1

\* What C11 says of the split of the focused tab group in orientation o
NestsSplit(o) ==
    LET parent == ParentOf(splitters, active)
        lay == splitters[parent].lay
        at == IndexOf(lay, active)
        w == _split(World(<<>>), o)
        new == w.active
        added == Splits(w.sp) \ Splits(splitters)
    IN  /\ new \notin Leaves(splitters)
        /\ Leaves(w.sp) = Leaves(splitters) \cup {new}
        /\ Splits(splitters) \subseteq Splits(w.sp)
        /\ Cardinality(added) = 1
        /\ \A new_splitter \in added :
               /\ w.sp[new_splitter].orient = o
               /\ w.sp[new_splitter].lay = <<active, new>>
               /\ w.sp[parent].lay = [lay EXCEPT ![at] = new_splitter]
               /\ Len(w.sized) = 1
               /\ w.sized[1].splitter = new_splitter
               /\ Len(w.sized[1].sizes) = 2
               /\ w.sized[1].sizes[1] = w.sized[1].sizes[2]
        /\ \A s \in Splits(splitters) :
               /\ w.sp[s].orient = splitters[s].orient
               /\ s # parent => w.sp[s].lay = splitters[s].lay

\* C11: a split in the orientation the splitter that holds the focused tab
\* group does not have makes one new splitter of the requested orientation;
\* it takes the place the focused tab group had among its parent's children,
\* whose other children keep their places; its children are the focused tab
\* group and then the new tab group, and one setSizes call gives both the same
\* size.
C11_OtherOrientationNests ==
    \A o \in Orientations :
        splitters[ParentOf(splitters, active)].orient # o => NestsSplit(o)

\* C11 where the focused tab group holds a tab
C11_NestsAroundNonEmpty ==
    \A o \in Orientations :
        (has_active_tabs(World(<<>>)) /\ splitters[ParentOf(splitters, active)].orient # o)
            => NestsSplit(o)

\* C11, a case of it: the focused tab group is between two siblings, and the
\* new splitter comes between them
C11_NestedBetween ==
    \E o \in Orientations :
        LET parent == ParentOf(splitters, active)
            lay == splitters[parent].lay
            at == IndexOf(lay, active)
            w == _split(World(<<>>), o)
        IN  /\ splitters[parent].orient # o
            /\ Len(lay) = 3
            /\ at = 2
            /\ IsSplitter(w.sp[parent].lay[2])
            /\ w.sp[parent].lay[1] = lay[1]
            /\ w.sp[parent].lay[3] = lay[3]
            /\ w.sp[w.sp[parent].lay[2]].lay = <<active, w.active>>

\* What C12 says of the split of the focused tab group in orientation o
FocusesNewGroup(o) ==
    LET w == _split(World(<<>>), o)
    IN  /\ w.active # active
        /\ w.active \notin Leaves(splitters)
        /\ w.active \in Leaves(w.sp)
        /\ Cardinality(Leaves(w.sp)) = Cardinality(Leaves(splitters)) + 1
        /\ \A g \in Leaves(splitters) :
               g \in Leaves(w.sp) /\ w.tabs[g].docs = tabs[g].docs

\* C12: after split_horizontal or split_vertical with a focused tab group the
\* focused tab group is the new one, not the one that was split, the tree has
\* exactly one tab group more, and every tab group that was there holds the
\* documents it held.
C12_SplitFocusesNewGroup ==
    \A o \in Orientations : active # NoTabs => FocusesNewGroup(o)

\* C12 where the focused tab group holds a tab
C12_SplitOfNonEmptyFocusesNew ==
    \A o \in Orientations : has_active_tabs(World(<<>>)) => FocusesNewGroup(o)

\* C12, a case of it: the split of a tab group of two documents, one of them
\* modified, in a tree of two tab groups
C12_SplitBesideDocuments ==
    \E o \in Orientations :
        /\ Cardinality(Leaves(splitters)) = 2
        /\ Len(tabs[active].docs) = 2
        /\ Modified(tabs, active) # {}
        /\ LET w == _split(World(<<>>), o)
           IN  /\ Cardinality(Leaves(w.sp)) = 3
               /\ w.active # active
               /\ w.tabs[active].docs = tabs[active].docs

\* The answers to the prompts close_split can come to ask in this state
CloseSplitAnswers == [1..Cardinality(Modified(tabs, active)) -> AllAnswers]

\* The last close of a command was refused (Cancel, or a save that failed)
Cancelled(w) == w.asked # <<>> /\ w.asked[Len(w.asked)] \in Refused

\* C13: close_split in a tree of exactly one tab group does nothing, whatever
\* the tab group holds and whatever would be answered: no document is closed,
\* no prompt is asked, no all_tabs_closed is emitted, and the tree, the focus,
\* the documents and current index of the tab group and the files are as
\* before.
C13_CloseSplitOfLastNoOp ==
    Cardinality(Leaves(splitters)) = 1 =>
        \A q \in CloseSplitAnswers :
            LET w == close_split(World(q))
            IN  /\ w.gone = <<>>
                /\ w.asked = <<>>
                /\ w.emitted = <<>>
                /\ w.tabs = tabs
                /\ w.sp = splitters
                /\ w.active = active
                /\ w.closing = closing
                /\ w.disk = disk

\* C13, its case: the sole tab group holds several documents, a modified one
\* among them, and close_split with Discard at hand leaves them
C13_LastSplitKept ==
    /\ Cardinality(Leaves(splitters)) = 1
    /\ Len(tabs[active].docs) > 1
    /\ Modified(tabs, active) # {}
    /\ close_split(World(<<Discard, Discard>>)).gone = <<>>
    /\ close_split(World(<<Discard, Discard>>)).tabs = tabs

\* C14: close_split in a tree of several tab groups, when a close of a
\* document of the focused tab group is refused (Cancel, or Save whose save
\* fails): the tab group is not removed; the tree (so the tab group's place in
\* it) and the focus are as before; the documents closed before the refusal
\* are gone, the refused document and those after it are what the tab group
\* holds, in their order; no other tab group changes.
C14_CancelledCloseSplitKeepsSplit ==
    Cardinality(Leaves(splitters)) > 1 =>
        \A q \in CloseSplitAnswers :
            LET w == close_split(World(q))
                before == tabs[active].docs
                k == Len(w.gone)
            IN  Cancelled(w) =>
                    /\ w.sp = splitters
                    /\ w.active = active
                    /\ active \in Leaves(w.sp)
                    /\ k < Len(before)
                    /\ \A j \in 1..k : ClosedAs(before[j], w.gone[j])
                    /\ w.tabs[active].docs = SubSeq(before, k + 1, Len(before))
                    /\ \A h \in Leaves(splitters) \ {active} : w.tabs[h] = tabs[h]

\* C14, its case: the first document of the focused tab group is closed and
\* the close of the second is cancelled
C14_CancelledAtSecond ==
    /\ Cardinality(Leaves(splitters)) > 1
    /\ Len(tabs[active].docs) = 2
    /\ ~tabs[active].docs[1].mod
    /\ tabs[active].docs[2].mod
    /\ LET w == close_split(World(<<Cancel>>))
       IN  /\ w.asked = <<"Cancel">>
           /\ w.gone = <<tabs[active].docs[1]>>
           /\ w.tabs[active].docs = <<tabs[active].docs[2]>>
           /\ active \in Leaves(w.sp)

\* What C15 says of a close_split that ended in w
Detached(w) ==
    /\ active \notin Leaves(w.sp)
    /\ Leaves(w.sp) = Leaves(splitters) \ {active}
    /\ Cardinality(Leaves(w.sp)) = Cardinality(Leaves(splitters)) - 1
    /\ Simplified(w.sp)
    /\ _cleanup_empty_splitters(w.sp) = w.sp
    /\ \A h \in Leaves(splitters) \ {active} : w.tabs[h] = tabs[h]

\* C15: in every state of several tab groups, a close_split in which no close
\* of a document is refused takes the focused tab group out of the tree: the
\* tree has one tab group less, the cleanup has run, and the other tab groups
\* and their documents are as before.
C15_CloseSplitDetaches ==
    Cardinality(Leaves(splitters)) > 1 =>
        \A q \in CloseSplitAnswers :
            LET w == close_split(World(q))
            IN  ~Cancelled(w) => Detached(w)

\* C15 where the focused tab group holds a tab
C15_NonEmptySplitDetaches ==
    (Cardinality(Leaves(splitters)) > 1 /\ has_active_tabs(World(<<>>))) =>
        \A q \in CloseSplitAnswers :
            LET w == close_split(World(q))
            IN  ~Cancelled(w) => Detached(w)

\* C15, a case of it: the focused tab group of three holds a modified
\* document, which is discarded, and leaves the tree with its splitter
C15_SplitClosed ==
    /\ Cardinality(Leaves(splitters)) = 3
    /\ tabs[active].docs # <<>>
    /\ tabs[active].docs[1].mod
    /\ LET w == close_split(World(<<Discard>>))
       IN  /\ w.asked = <<"Discard">>
           /\ Cardinality(Leaves(w.sp)) = 2
           /\ Cardinality(Splits(w.sp)) < Cardinality(Splits(splitters))

\* focus_next_split applied k times
RECURSIVE focus_next_times(_, _)
focus_next_times(w, k) == IF k = 0 THEN w ELSE focus_next_times(focus_next_split(w), k - 1)

\* C16: with all_tabs the list _get_all_tab_widgets returns and the focused
\* tab group at its place at: focus_next_split focuses the one at at + 1, the
\* first after the last; focus_previous_split the one at at - 1, the last
\* before the first; with one tab group both leave the focus; next then
\* previous, previous then next, and as many next as there are tab groups
\* restore the focus; neither changes the tree or any tab group.
C16_FocusCycles ==
    LET all_tabs == _get_all_tab_widgets(splitters)
        k == Len(all_tabs)
        at == IndexOf(all_tabs, active)
        n == focus_next_split(World(<<>>))
        p == focus_previous_split(World(<<>>))
    IN  /\ k = 1 => n.active = active /\ p.active = active
        /\ k > 1 => /\ n.active = all_tabs[IF at = k THEN 1 ELSE at + 1]
                    /\ p.active = all_tabs[IF at = 1 THEN k ELSE at - 1]
                    /\ n.active # active
                    /\ p.active # active
        /\ focus_previous_split(n).active = active
        /\ focus_next_split(p).active = active
        /\ focus_next_times(World(<<>>), k).active = active
        /\ \A j \in 1..(k - 1) : focus_next_times(World(<<>>), j).active # active
        /\ n.sp = splitters /\ n.tabs = tabs
        /\ p.sp = splitters /\ p.tabs = tabs

\* C16, its case: three tab groups, the last of the list focused;
\* focus_next_split wraps to the first
C16_WrappedToFirst ==
    LET all_tabs == _get_all_tab_widgets(splitters)
    IN  /\ Len(all_tabs) = 3
        /\ all_tabs[3] = active
        /\ focus_next_split(World(<<>>)).active = all_tabs[1]
        /\ focus_previous_split(World(<<>>)).active = all_tabs[2]

\* C17: the list _get_all_tab_widgets returns is the tab groups in the order
\* of the layout: depth first, the children of every splitter by their
\* position in it.
C17_LeavesInVisualOrder ==
    _get_all_tab_widgets(splitters) = VisualLeaves(splitters, root_splitter)

\* C18: in a tab group of n documents whose current one is the i-th, next_tab
\* makes the one after it current, the first after the last, and previous_tab
\* the one before it, the last before the first, if n > 1; both change
\* nothing if n <= 1; next_tab then previous_tab restores the current one;
\* neither changes the documents or anything else.
C18_TabsCycle ==
    \A g \in Leaves(splitters) :
        LET count == Len(tabs[g].docs)
            i == tabs[g].cur
            n == tw_next_tab(World(<<>>), g)
            p == tw_previous_tab(World(<<>>), g)
        IN  /\ count <= 1 => n = World(<<>>) /\ p = World(<<>>)
            /\ count > 1 =>
                   /\ n.tabs[g].cur = (IF i = count THEN 1 ELSE i + 1)
                   /\ p.tabs[g].cur = (IF i = 1 THEN count ELSE i - 1)
                   /\ n = [World(<<>>) EXCEPT !.tabs[g].cur = n.tabs[g].cur]
                   /\ p = [World(<<>>) EXCEPT !.tabs[g].cur = p.tabs[g].cur]
            /\ tw_previous_tab(n, g) = World(<<>>)
            /\ tw_next_tab(p, g) = World(<<>>)

\* C18, its case: the last of three tabs is current; next_tab wraps to the
\* first and previous_tab gives the second
C18_WrappedToFirstTab ==
    \E g \in Leaves(splitters) :
        /\ Len(tabs[g].docs) = 3
        /\ tabs[g].cur = 3
        /\ tw_next_tab(World(<<>>), g).tabs[g].cur = 1
        /\ tw_previous_tab(World(<<>>), g).tabs[g].cur = 2
        /\ tw_previous_tab(tw_next_tab(World(<<>>), g), g).tabs[g].cur = 3

\* The tabs of tab group g whose document has the path p
TabsAt(g, p) == {i \in 1..Len(tabs[g].docs) : tabs[g].docs[i].path = p}

\* C19: open_file(path) on a tab group that holds a document with that path
\* makes such a document the current one and returns it, whatever the
\* current document was; the documents of the tab group, their order and
\* every document's text, path and modified flag are as before, and nothing
\* else changes (no file is read into a document).
C19_OpenSwitchesToOpenFile ==
    \A g \in Leaves(splitters) : \A p \in Files.paths :
        TabsAt(g, p) # {} =>
            LET w == tw_open_file(World(<<>>), g, p)
            IN  /\ w.ret
                /\ w.res \in TabsAt(g, p)
                /\ w.tabs[g].cur = w.res
                /\ w.tabs[g].docs = tabs[g].docs
                /\ w = [World(<<>>) EXCEPT !.tabs[g].cur = w.res, !.ret = TRUE, !.res = w.res]

\* C19, its case: the current document has another path, the document at the
\* path is modified and differs from the file, and open_file switches to it
C19_SwitchedFromOtherFile ==
    \E g \in Leaves(splitters) : \E p \in Files.paths :
        /\ TabsAt(g, p) # {}
        /\ tabs[g].cur \notin TabsAt(g, p)
        /\ tabs[g].docs[tabs[g].cur].path # NoPath
        /\ \E i \in TabsAt(g, p) : tabs[g].docs[i].mod /\ File(write_text(tabs[g].docs[i].text)) # disk[p]
        /\ tw_open_file(World(<<>>), g, p).tabs[g].cur \in TabsAt(g, p)

\* The document a load of the file at p makes
Loaded(p) == [path |-> p, text |-> read_text(disk[p].text), mod |-> FALSE]

\* C20: open_file(path), path a file that loads, on a tab group that holds no
\* document with that path: if the current document is empty, has no path
\* and is not modified, the file is loaded into it (the count and the current
\* index as before; the document gets the path, the file's text and modified
\* false); if it has text, a path or is modified, a new document with the
\* file is appended and made current, and the one that was current is as it
\* was.  Nothing else changes.
C20_OpenReusesPristineOrAppends ==
    \A g \in Leaves(splitters) : \A p \in Files.paths :
        (TabsAt(g, p) = {} /\ tabs[g].cur # NoTabs /\ load_file_ok(disk, p)) =>
            LET docs == tabs[g].docs
                cur == tabs[g].cur
                d == docs[cur]
                w == tw_open_file(World(<<>>), g, p)
            IN  /\ IF d.text = <<>> /\ d.path = NoPath /\ ~d.mod
                   THEN /\ w.tabs[g].docs = [docs EXCEPT ![cur] = Loaded(p)]
                        /\ w.tabs[g].cur = cur
                   ELSE /\ w.tabs[g].docs = Append(docs, Loaded(p))
                        /\ w.tabs[g].cur = Len(docs) + 1
                        /\ w.tabs[g].docs[cur] = d
                /\ w.ret
                /\ w.res = w.tabs[g].cur
                /\ w = [World(<<>>) EXCEPT !.tabs[g] = w.tabs[g], !.ret = TRUE, !.res = w.res]

\* C20, its case: of two tab groups one shows a pristine document and the
\* other a document with a path; a file with text that neither holds is
\* loaded into the first and appended to the second
C20_ReusedHereAppendedThere ==
    \E g, h \in Leaves(splitters) : \E p \in Files.paths :
        /\ load_file_ok(disk, p)
        /\ disk[p].text # <<>>
        /\ TabsAt(g, p) = {}
        /\ TabsAt(h, p) = {}
        /\ tabs[g].cur # NoTabs
        /\ tabs[h].cur # NoTabs
        /\ tabs[g].docs[tabs[g].cur] = TextEditor
        /\ tabs[h].docs[tabs[h].cur].path # NoPath
        /\ Len(tw_open_file(World(<<>>), g, p).tabs[g].docs) = Len(tabs[g].docs)
        /\ Len(tw_open_file(World(<<>>), h, p).tabs[h].docs) = Len(tabs[h].docs) + 1

\* C21: new_tab(path) and open_file(path) with a file that does not load (it
\* is not there, may not be read or is not UTF-8) and, for open_file, that no
\* document of the tab group has: no document is added, the current document
\* and everything else stay as they were, and the caller gets None.
C21_FailedLoadAddsNothing ==
    \A g \in Leaves(splitters) : \A p \in Files.paths :
        ~load_file_ok(disk, p) =>
            /\ LET w == tw_new_tab(World(<<>>), g, p)
               IN  w.res = NoDoc /\ ~w.ret /\ ~w.raised /\ w = World(<<>>)
            /\ TabsAt(g, p) = {} =>
                   LET w == tw_open_file(World(<<>>), g, p)
                   IN  w.res = NoDoc /\ ~w.ret /\ ~w.raised /\ w = World(<<>>)

\* C21, for a file that open() refuses: nothing is added and None is returned
C21_UnopenedAddsNothing ==
    \A g \in Leaves(splitters) : \A p \in Files.paths :
        ~disk[p].ok =>
            /\ LET w == tw_new_tab(World(<<>>), g, p)
               IN  w.res = NoDoc /\ ~w.ret /\ ~w.raised /\ w = World(<<>>)
            /\ TabsAt(g, p) = {} =>
                   LET w == tw_open_file(World(<<>>), g, p)
                   IN  w.res = NoDoc /\ ~w.ret /\ ~w.raised /\ w = World(<<>>)

\* C21, for a file that is not UTF-8: nothing is added, and the command ends
\* with the exception
C21_UndecodedAddsNothing ==
    \A g \in Leaves(splitters) : \A p \in Files.paths :
        load_file_raises(disk, p) =>
            /\ LET w == tw_new_tab(World(<<>>), g, p)
               IN  w = [World(<<>>) EXCEPT !.raised = TRUE]
            /\ TabsAt(g, p) = {} =>
                   LET w == tw_open_file(World(<<>>), g, p)
                   IN  w = [World(<<>>) EXCEPT !.raised = TRUE]

C21_OpenFailedOnPristine ==
    \E g \in Leaves(splitters) : \E p \in Files.paths :
        /\ ~disk[p].ok
        /\ Len(tabs[g].docs) > 1
        /\ tabs[g].cur # NoTabs
        /\ tabs[g].docs[tabs[g].cur] = TextEditor
        /\ \E i \in 1..Len(tabs[g].docs) : tabs[g].docs[i].mod
        /\ tw_open_file(World(<<>>), g, p).res = NoDoc
        /\ tw_new_tab(World(<<>>), g, p).res = NoDoc
\* ------------------------------------------------------------- C22
\* C22: a load_file or save_file that fails (the file is not there, may not be
\* read or is not UTF-8; there is no path to save to or the write fails)
\* leaves the text, the path and the modified flag of the document as they
\* were and returns False: no exception leaves it.
C22_FailureLeavesDocument ==
    \A g \in Leaves(splitters) : \A i \in 1..Len(tabs[g].docs) :
        LET d == tabs[g].docs[i]
        IN  /\ \A p \in Files.paths :
                   ~load_file_ok(disk, p) =>
                       load_file(disk, d, p) = d /\ ~load_file_raises(disk, p)
            /\ \A p \in Files.paths \cup {NoPath} : \A wr \in BOOLEAN :
                   ~save_file_ok(d, p, wr) =>
                       save_file_doc(d, p, wr) = d /\ save_file_disk(disk, d, p, wr) = disk

\* C22, without the question of how the failure is reported: the document is
\* as it was
C22_FailureKeepsDocument ==
    \A g \in Leaves(splitters) : \A i \in 1..Len(tabs[g].docs) :
        LET d == tabs[g].docs[i]
        IN  /\ \A p \in Files.paths : ~load_file_ok(disk, p) => load_file(disk, d, p) = d
            /\ \A p \in Files.paths \cup {NoPath} : \A wr \in BOOLEAN :
                   ~save_file_ok(d, p, wr) => save_file_doc(d, p, wr) = d

\* A modified document with a path and a text, and a file that is not UTF-8
C22_UndecodableMeetsDocument ==
    \E g \in Leaves(splitters) : \E i \in 1..Len(tabs[g].docs) : \E p \in Files.paths :
        /\ tabs[g].docs[i].mod
        /\ tabs[g].docs[i].path # NoPath
        /\ tabs[g].docs[i].text # <<>>
        /\ load_file_raises(disk, p)
\* ------------------------------------------------------------- C23
\* C23: a save_file that succeeds leaves the document with the path saved to
\* (the one given, else its own), not modified and with its text; a new
\* TextEditor that then loads that path loads it, and has the same text, that
\* path and is not modified.
C23_SaveLoadRoundTrip ==
    \A g \in Leaves(splitters) : \A i \in 1..Len(tabs[g].docs) :
        \A p \in Files.paths \cup {NoPath} : \A wr \in BOOLEAN :
            LET d == tabs[g].docs[i]
                saved == save_file_doc(d, p, wr)
                dk == save_file_disk(disk, d, p, wr)
                fresh == load_file(dk, TextEditor, saved.path)
            IN  save_file_ok(d, p, wr) =>
                    /\ saved = [path |-> IF p # NoPath THEN p ELSE d.path,
                                text |-> d.text, mod |-> FALSE]
                    /\ load_file_ok(dk, saved.path)
                    /\ fresh = [path |-> saved.path, text |-> d.text, mod |-> FALSE]

\* A modified document of more than one line, saved under another path, over a
\* file that is not UTF-8
C23_SavedOverOtherFile ==
    \E g \in Leaves(splitters) : \E i \in 1..Len(tabs[g].docs) : \E p \in Files.paths :
        LET d == tabs[g].docs[i]
            dk == save_file_disk(disk, d, p, TRUE)
        IN  /\ d.mod
            /\ "\n" \in Range(d.text)
            /\ d.path \notin {NoPath, p}
            /\ load_file_raises(disk, p)
            /\ save_file_ok(d, p, TRUE)
            /\ load_file(dk, TextEditor, p).text = d.text
\* ------------------------------------------------------------- C24
\* The editor the SplitContainer reports as focused: the current one of the
\* active tab group
Focused ==
    IF active # NoTabs /\ Len(tabs[active].docs) > 0 /\ tabs[active].cur # NoTabs
    THEN <<active, tabs[active].cur>>
    ELSE NoEditor

\* C24: after every command and every focus or tab event, the find bar is
\* bound to the current editor of the active tab group (to none if there is
\* none): never to a closed editor, to one of another tab group or to one
\* that is not current.
C24_BoundToFocused == [][find_replace'._editor = Focused']_vars

\* C24, what holds: when there is a focused editor, a find bar that has been
\* bound is bound to it
C24_BoundWhileFocused ==
    (find_replace._editor # NoEditor /\ Focused # NoEditor) => find_replace._editor = Focused

\* The find bar is bound to an editor of a tab group that is not the active one
C24_BoundToOtherGroup == find_replace._editor[1] \notin {0, active}

\* The find bar is bound to an editor that has been closed
C24_BoundToClosed == find_replace._editor = ClosedEditor

\* There is a focused editor and the find bar is bound to none
C24_UnboundWithFocused == find_replace._editor = NoEditor /\ Focused # NoEditor

\* The find bar follows the focus into the second of two tab groups with tabs
C24_FollowedFocus ==
    /\ find_replace._editor = Focused
    /\ Focused[1] = 2
    /\ Focused[2] = 1
    /\ Len(tabs[2].docs) = 2
    /\ Len(tabs[1].docs) > 0
IsMatch(text, fr, i) ==
    /\ fr.find_input # <<>>
    /\ stands_at(text, fr.find_input, i, fr.case_sensitive)
    /\ fr.whole_word =>
           /\ i = 0 \/ ~isLetterOrNumber(text[i])
           /\ i + Len(fr.find_input) = Len(text)
                  \/ ~isLetterOrNumber(text[i + Len(fr.find_input) + 1])

Matches(text, fr) == {i \in 0..Len(text) : IsMatch(text, fr, i)}

\* The matches met from offset pos on, going left to right and passing over
\* those that overlap one already met
RECURSIVE MatchesFrom(_, _, _)
MatchesFrom(text, fr, pos) ==
    LET at == {i \in Matches(text, fr) : i >= pos}
    IN  IF at = {} THEN <<>>
        ELSE <<Min(at)>> \o MatchesFrom(text, fr, Min(at) + Len(fr.find_input))

\* The cursor that has the match at offset i selected
Selects(fr, i) == [anchor |-> i, position |-> i + Len(fr.find_input)]

\* The find bar after k calls of find_next
RECURSIVE find_next_times(_, _)
find_next_times(b, k) == IF k = 0 THEN b ELSE find_next(find_next_times(b, k - 1))

\* C26: with the cursor at offset 0 and k >= 1 matches (left to right, not
\* overlapping), the j-th find_next returns True and selects the j-th match,
\* for j = 1..k, and the one after selects the first match again.
C26_FindNextInOrder ==
    LET seq == MatchesFrom(lone_editor.text, find_replace, 0)
        k == Len(seq)
    IN  (find_replace._editor # NoEditor /\ textCursor(lone_editor) = StartCursor /\ k >= 1) =>
            /\ \A j \in 1..k :
                   LET b == find_next_times(TheBar, j)
                   IN  /\ b.ret
                       /\ textCursor(b.editor) = Selects(find_replace, seq[j])
                       /\ b.editor.text = lone_editor.text
            /\ LET b == find_next_times(TheBar, k + 1)
               IN  b.ret /\ textCursor(b.editor) = Selects(find_replace, seq[1])

\* C26, for a search that is not for whole words
C26_FindNextInOrderAnyWord == find_replace.whole_word \/ C26_FindNextInOrder

\* C26, for a query without a space
C26_FindNextInOrderOfWords == (" " \in Range(find_replace.find_input)) \/ C26_FindNextInOrder

\* Two matches and a place where the query stands but that is passed over,
\* the cursor at offset 0
C26_TwoMatchesFromStart ==
    /\ find_replace._editor # NoEditor
    /\ textCursor(lone_editor) = StartCursor
    /\ Len(MatchesFrom(lone_editor.text, find_replace, 0)) = 2
    /\ Cardinality(Matches(lone_editor.text, find_replace)) = 3
\* ------------------------------------------------------------- C27
\* Nothing to be found: the query is empty, no editor is bound, or the query
\* has no match under the flags
Absent ==
    \/ find_replace.find_input = <<>>
    \/ find_replace._editor = NoEditor
    \/ Matches(lone_editor.text, find_replace) = {}

\* C27: when there is nothing to be found, find_next and find_previous return
\* False and replace_all returns 0, and the text, the cursor with its
\* selection and _last_match_position (and everything else) are as before.
C27_AbsenceChangesNothing ==
    Absent =>
        /\ LET b == find_next(TheBar)
           IN  ~b.ret /\ b.editor = lone_editor /\ b.find_replace = find_replace
        /\ LET b == find_previous(TheBar)
           IN  ~b.ret /\ b.editor = lone_editor /\ b.find_replace = find_replace
        /\ LET b == replace_all(TheBar)
           IN  b.n = 0 /\ b.editor = lone_editor /\ b.find_replace = find_replace

\* The query stands in the text but is no match under the flags; a selection
\* and a last match are there to be kept
C27_AbsentUnderFlags ==
    /\ find_replace._editor # NoEditor
    /\ Matches(lone_editor.text, find_replace) = {}
    /\ Matches(lone_editor.text,
               [find_replace EXCEPT !.case_sensitive = FALSE, !.whole_word = FALSE]) # {}
    /\ hasSelection(textCursor(lone_editor))
    /\ find_replace._last_match_position > 0
\* ------------------------------------------------------------- C28
\* The find bar after k calls of find_previous
RECURSIVE find_previous_times(_, _)
find_previous_times(b, k) == IF k = 0 THEN b ELSE find_previous(find_previous_times(b, k - 1))

\* The matches in decreasing order of their offsets
RECURSIVE Descending(_)
Descending(S) == IF S = {} THEN <<>> ELSE <<Max(S)>> \o Descending(S \ {Max(S)})

\* The matches that lie before the start of the selection
MatchesBefore == 
    {i \in Matches(lone_editor.text, find_replace) :
        i + Len(find_replace.find_input) <= selectionStart(textCursor(lone_editor))}

\* The matches that begin before the start of the selection
MatchesBeginningBefore ==
    {i \in Matches(lone_editor.text, find_replace) :
        i < selectionStart(textCursor(lone_editor))}

\* find_previous returns True, selects the match at offset i and remembers
\* its end
PreviousSelects(i) ==
    LET b == find_previous(TheBar)
    IN  /\ b.ret
        /\ textCursor(b.editor) = Selects(find_replace, i)
        /\ b.editor.text = lone_editor.text
        /\ b.find_replace =
               [find_replace EXCEPT !._last_match_position = i + Len(find_replace.find_input)]

\* C28, as stated: find_previous selects the nearest match that lies before
\* the cursor (before the start of the selection), and the last match of the
\* document when none lies before it.
C28_FindPreviousMirrors ==
    (find_replace._editor # NoEditor /\ Matches(lone_editor.text, find_replace) # {}) =>
        PreviousSelects(IF MatchesBefore # {} THEN Max(MatchesBefore)
                        ELSE Max(Matches(lone_editor.text, find_replace)))

\* C28, amended: find_previous selects the match with the greatest offset
\* that begins before the start of the selection, whether or not it reaches
\* over the cursor or into the selection, and the last match of the document
\* when none begins before it; from the end of the document, successive calls
\* select every match, overlapping ones too, in decreasing order of offset,
\* and the call after the first match selects the last one again.
C28_FindPreviousByStart ==
    (find_replace._editor # NoEditor /\ Matches(lone_editor.text, find_replace) # {}) =>
        /\ PreviousSelects(IF MatchesBeginningBefore # {} THEN Max(MatchesBeginningBefore)
                           ELSE Max(Matches(lone_editor.text, find_replace)))
        /\ textCursor(lone_editor) = EndCursor(lone_editor.text) =>
               LET seq == Descending(Matches(lone_editor.text, find_replace))
               IN  /\ \A j \in 1..Len(seq) :
                          LET b == find_previous_times(TheBar, j)
                          IN  b.ret /\ textCursor(b.editor) = Selects(find_replace, seq[j])
                   /\ LET b == find_previous_times(TheBar, Len(seq) + 1)
                      IN  b.ret /\ textCursor(b.editor) = Selects(find_replace, seq[1])

\* The cursor stands at the end of a text with three matches, two of which
\* overlap, one of them excluded by no flag
C28_ThreeMatchesFromEnd ==
    /\ find_replace._editor # NoEditor
    /\ textCursor(lone_editor) = EndCursor(lone_editor.text)
    /\ Cardinality(Matches(lone_editor.text, find_replace)) = 3
    /\ Len(MatchesFrom(lone_editor.text, find_replace, 0)) = 2
\* ------------------------------------------------------------- C29
\* The selection is not empty and its text is the query: exactly if
\* case_sensitive, but for the case of the letters if not
SelectionIsQuery ==
    LET c == textCursor(lone_editor)
        selected == selectedText(lone_editor.text, c)
        search == find_replace.find_input
    IN  /\ c.anchor # c.position
        /\ Len(selected) = Len(search)
        /\ \A k \in 1..Len(search) :
               \/ selected[k] = search[k]
               \/ ~find_replace.case_sensitive /\ lower(selected[k]) = lower(search[k])

\* The editor with its selection replaced by the replacement: the text before
\* and after the selection as it was, the cursor behind the replacement
SelectionReplaced ==
    LET c == textCursor(lone_editor)
        from == selectionStart(c)
        to == selectionEnd(c)
        after == from + Len(find_replace.replace_input)
    IN  [lone_editor EXCEPT
            !.text = SubSeq(lone_editor.text, 1, from) \o find_replace.replace_input
                      \o SubSeq(lone_editor.text, to + 1, Len(lone_editor.text)),
            !.mod = TRUE, !.anchor = after, !.position = after]

\* C29: replace replaces the selection by the replacement if and only if the
\* selection is not empty and its text is the query under the case rule, and
\* changes no other text; replaced or not, it then does what find_next does
\* and returns what find_next returns.
C29_ReplaceThenFindNext ==
    find_replace._editor # NoEditor =>
        LET b == replace(TheBar)
            then == find_next(Bar(find_replace,
                                  IF SelectionIsQuery THEN SelectionReplaced ELSE lone_editor))
        IN  /\ b = then
            /\ b.editor.text = IF SelectionIsQuery THEN SelectionReplaced.text
                               ELSE lone_editor.text

\* A selection that is the query but for the case of a letter is replaced by
\* a replacement that holds the query, and the find_next that follows finds
\* a match behind it
C29_ReplacedIgnoringCase ==
    /\ find_replace._editor # NoEditor
    /\ find_replace.find_input # <<>>
    /\ SelectionIsQuery
    /\ selectedText(lone_editor.text, textCursor(lone_editor)) # find_replace.find_input
    /\ find_replace.replace_input # <<>>
    /\ replace(TheBar).ret
    /\ replace(TheBar).editor.anchor >= SelectionReplaced.position
\* ------------------------------------------------------------- C30
\* The text with the places of length n at the offsets seq (in increasing
\* order, not overlapping) replaced by r, everything else kept, from offset
\* pos on
RECURSIVE Replaced(_, _, _, _, _)
Replaced(text, seq, n, r, pos) ==
    IF seq = <<>> THEN SubSeq(text, pos + 1, Len(text))
    ELSE SubSeq(text, pos + 1, Head(seq)) \o r \o Replaced(text, Tail(seq), n, r, Head(seq) + n)

\* replace_all returns the number of the matches met from the start of the
\* text, left to right and not overlapping, and leaves the text with each of
\* them replaced by the replacement
ReplacesAllMatches ==
    LET seq == MatchesFrom(lone_editor.text, find_replace, 0)
        b == replace_all(TheBar)
    IN  /\ b.n = Len(seq)
        /\ b.editor.text = Replaced(lone_editor.text, seq, Len(find_replace.find_input),
                                    find_replace.replace_input, 0)
        /\ b.find_replace = find_replace

\* C30: replace_all, wherever the cursor is, returns the number of the
\* matches met from the start of the document (left to right, not
\* overlapping, under the flags) and leaves the text with each of them
\* replaced by the replacement and every other character kept, in order; with
\* no match it returns 0 and the text is as it was.
C30_ReplaceAllReplacesEvery ==
    (find_replace._editor # NoEditor /\ find_replace.find_input # <<>>) => ReplacesAllMatches

\* C30, for a search that is not for whole words
C30_ReplaceAllAnyWord == find_replace.whole_word \/ C30_ReplaceAllReplacesEvery

\* C30, for a query without a space
C30_ReplaceAllOfWords ==
    (" " \in Range(find_replace.find_input)) \/ C30_ReplaceAllReplacesEvery

\* Two matches, the cursor behind the first, and a replacement that holds
\* the query
C30_TwoReplacedBehindCursor ==
    /\ find_replace._editor # NoEditor
    /\ lone_editor.position > 1
    /\ Len(MatchesFrom(lone_editor.text, find_replace, 0)) = 2
    /\ Cardinality(Matches(lone_editor.text, find_replace)) = 3
    /\ find_replace.replace_input # <<>>
    /\ replace_all(TheBar).n = 2
\* ------------------------------------------------------------- C31
\* C31: replace_all comes to its end for every text, query and replacement
\* (the loop ends on a find that finds nothing, before ReplaceCap rounds);
\* every match it finds begins at or behind the end of the text inserted by
\* every replacement before it, so nothing inserted is matched again; and
\* the number of replacements is at most the length of the text it began on.
C31_ReplaceAllTerminates ==
    (find_replace._editor # NoEditor /\ find_replace.find_input # <<>>) =>
        LET b == replace_all(TheBar)
            r == Len(find_replace.replace_input)
        IN  /\ b.n < ReplaceCap
            /\ b.n = Len(b.finds)
            /\ b.n <= Len(lone_editor.text)
            /\ \A k \in 1..Len(b.finds) : \A j \in 1..(k - 1) :
                   b.finds[k].anchor >= b.finds[j].anchor + r
            /\ \A k \in 1..Len(b.finds) : b.finds[k].anchor >= 0

\* Two matches replaced by a text in which the query stands
C31_ReplacementHoldsQuery ==
    /\ find_replace._editor # NoEditor
    /\ find_replace.find_input # <<>>
    /\ indexOf(find_replace.replace_input, find_replace.find_input, 0,
               find_replace.case_sensitive) # -1
    /\ replace_all(TheBar).n >= 2
    /\ lone_editor.position > 0
\* ------------------------------------------------------------- C32
\* A character of a word: a letter or a digit, and the underscore if us
WordChar(c, us) == isLetterOrNumber(c) \/ (us /\ c = "_")

\* The span a cursor c has selected in text satisfies the flags of fr: it is
\* the query (exactly with case_sensitive, ignoring case without) and, with
\* whole_word, no character of a word stands directly before or after it
SpanSatisfies(text, fr, c, us) ==
    LET s == selectionStart(c)
        e == selectionEnd(c)
        span == SubSeq(text, s + 1, e)
    IN  /\ 0 <= s /\ s < e /\ e <= Len(text)
        /\ IF fr.case_sensitive THEN span = fr.find_input
           ELSE lower_str(span) = lower_str(fr.find_input)
        /\ fr.whole_word =>
               /\ s = 0 \/ ~WordChar(text[s], us)
               /\ e = Len(text) \/ ~WordChar(text[e + 1], us)

\* The spans replace_all found one after the other, each in the text as it
\* was when it was found
RECURSIVE AllSatisfy(_, _, _, _)
AllSatisfy(text, fr, finds, us) ==
    finds = <<>> \/
        /\ SpanSatisfies(text, fr, Head(finds), us)
        /\ AllSatisfy(insertText(text, Head(finds).anchor, Head(finds).position,
                                 fr.replace_input),
                      fr, Tail(finds), us)

AcceptedSatisfy(us) ==
    LET next == find_next(TheBar)
        previous == find_previous(TheBar)
        all == replace_all(TheBar)
    IN  /\ next.ret => SpanSatisfies(lone_editor.text, find_replace, textCursor(next.editor), us)
        /\ previous.ret =>
               SpanSatisfies(lone_editor.text, find_replace, textCursor(previous.editor), us)
        /\ AllSatisfy(lone_editor.text, find_replace, all.finds, us)

\* The examples in small: a whole-word search for "a" in "a ab a" selects
\* [0,1), then [5,6), then [0,1) again; a case-sensitive search for "a" in
\* "A a A" selects [2,3) and again [2,3)
ExampleBar(text, cs, ww) ==
    Bar([FindReplaceWidget EXCEPT !._editor = LoneEditor, !.find_input = <<"a">>,
                                  !.case_sensitive = cs, !.whole_word = ww],
        QPlainTextEdit(text))

ExamplesHold ==
    LET whole == ExampleBar(<<"a", " ", "a", "b", " ", "a">>, FALSE, TRUE)
        exact == ExampleBar(<<"A", " ", "a", " ", "A">>, TRUE, FALSE)
    IN  /\ textCursor(find_next_times(whole, 1).editor) = [anchor |-> 0, position |-> 1]
        /\ textCursor(find_next_times(whole, 2).editor) = [anchor |-> 5, position |-> 6]
        /\ textCursor(find_next_times(whole, 3).editor) = [anchor |-> 0, position |-> 1]
        /\ replace_all(whole).n = 2
        /\ textCursor(find_next_times(exact, 1).editor) = [anchor |-> 2, position |-> 3]
        /\ textCursor(find_next_times(exact, 2).editor) = [anchor |-> 2, position |-> 3]
        /\ replace_all(exact).n = 1

RECURSIVE LinesOf(_)
LinesOf(text) ==
    LET nl == {i \in 1..Len(text) : text[i] = "\n"}
    IN  IF nl = {} THEN <<text>>
        ELSE <<SubSeq(text, 1, Min(nl) - 1)>> \o LinesOf(SubSeq(text, Min(nl) + 1, Len(text)))

\* The lines ls with those at i and i + 1 swapped
Swapped(ls, i) ==
    [k \in 1..Len(ls) |-> IF k = i THEN ls[i + 1] ELSE IF k = i + 1 THEN ls[i] ELSE ls[k]]

\* The line of the cursor, counted from 1, and the number of lines
CursorLine == blockNumber(lone_editor) + 1

LineCount == Len(LinesOf(lone_editor.text))

\* move_line_up swaps the line of the cursor with the one above it, and does
\* nothing on the first line; move_line_down swaps it with the one below it,
\* and does nothing on the last line; the cursor goes with the line
LinesMove ==
    LET up == move_line_up(lone_editor)
        down == move_line_down(lone_editor)
        ls == LinesOf(lone_editor.text)
    IN  /\ CursorLine = 1 => up = lone_editor
        /\ CursorLine > 1 =>
               /\ LinesOf(up.text) = Swapped(ls, CursorLine - 1)
               /\ blockNumber(up) + 1 = CursorLine - 1
        /\ CursorLine = LineCount => down = lone_editor
        /\ CursorLine < LineCount =>
               /\ LinesOf(down.text) = Swapped(ls, CursorLine)
               /\ blockNumber(down) + 1 = CursorLine + 1
        /\ Len(LinesOf(up.text)) = LineCount
        /\ Len(LinesOf(down.text)) = LineCount

\* C33: move_line_up swaps the cursor's line with the line above and does
\* nothing on the first line, move_line_down swaps it with the line below and
\* does nothing on the last line, the other lines and the number of lines
\* stay, and move_line_down followed by move_line_up gives the text back.
C33_LinesMoveAndReturn ==
    /\ LinesMove
    /\ move_line_up(move_line_down(lone_editor)).text = lone_editor.text

\* C33, with the return as the code has it: move_line_down followed by
\* move_line_up gives the text back if the cursor is not on the last line;
\* on the last line only move_line_up acts, and the last two lines are
\* swapped
C33_LinesMoveAndReturnBeforeLast ==
    /\ LinesMove
    /\ CursorLine < LineCount =>
           move_line_up(move_line_down(lone_editor)).text = lone_editor.text
    /\ CursorLine = LineCount =>
           move_line_up(move_line_down(lone_editor)) = move_line_up(lone_editor)

\* The cursor is on the middle one of three lines that differ, with a part
\* of the text selected
C33_OnMiddleOfThree ==
    /\ LineCount = 3
    /\ CursorLine = 2
    /\ hasSelection(textCursor(lone_editor))
    /\ move_line_up(lone_editor).text # lone_editor.text
    /\ move_line_down(lone_editor).text # lone_editor.text
\* ------------------------------------------------------------- C34
\* The modified documents of a tab group, in order
ModSeq(tb, g) == SelectSeq(tb[g].docs, LAMBDA d : d.mod)

\* a can be had from b by leaving elements out
RECURSIVE IsSubseq(_, _)
IsSubseq(a, b) ==
    IF a = <<>> THEN TRUE
    ELSE IF b = <<>> THEN FALSE
    ELSE IF Head(a) = Head(b) THEN IsSubseq(Tail(a), Tail(b))
    ELSE IsSubseq(a, Tail(b))

CountModified(tb) ==
    Cardinality({<<g, i>> \in GroupIds \X (1..(TopDocs + 1)) :
                    i <= Len(tb[g].docs) /\ tb[g].docs[i].mod})

\* Every command that closes, opens, adds, splits or moves the focus, run
\* from the present state with every sequence q of answers to the prompts it
\* can come to ask, and the state w it ends in
ClosingOutcomes ==
    {[q |-> q, w |-> close_current_tab(World(q))] : q \in AnswerSeqs(Main, 1)}
    \cup UNION {UNION {{[q |-> q, w |-> tw_close_tab(World(q), g, i)] :
                          q \in AnswerSeqs(Main, 1)} :
                      i \in 1..Len(tabs[g].docs)} : g \in Leaves(splitters)}
    \cup {[q |-> q, w |-> close_split(World(q))] :
              q \in AnswerSeqs(Main, IF active # NoTabs
                                     THEN Cardinality(Modified(tabs, active)) ELSE 0)}
    \cup {[q |-> q, w |-> close_all_tabs(World(q))] :
              q \in AnswerSeqs(Main, Cardinality(AllModified(tabs)))}

OtherOutcomes ==
    {[q |-> <<>>, w |-> open_file(World(<<>>), p)] : p \in Main.paths \cup {NoPath}}
    \cup {[q |-> <<>>, w |-> _split(World(<<>>), o)] : o \in Orientations}
    \cup {[q |-> <<>>, w |-> _on_tabs_focused(World(<<>>), g)] : g \in Leaves(splitters)}
    \cup {[q |-> <<>>, w |-> w] :
              w \in {new_tab(World(<<>>)), focus_next_split(World(<<>>)),
                     focus_previous_split(World(<<>>)), next_tab(World(<<>>)),
                     previous_tab(World(<<>>))}}

\* What a command that ended in o.w did to the documents: the modified
\* documents a tab group holds are among those it held; as many documents
\* left while modified as prompts were answered Discard; the other modified
\* documents that left are at most as many as prompts were answered Save
\* with a write that succeeded, and left unmodified; and a tab group that
\* left the tree holds no document
NothingLostSilently(o) ==
    LET w == o.w
        consumed == SubSeq(o.q, 1, Len(o.q) - Len(w.q))
        discards == Cardinality({k \in 1..Len(consumed) : consumed[k].reply = "Discard"})
        saves == Cardinality({k \in 1..Len(consumed) :
                                 consumed[k].reply = "Save" /\ consumed[k].wr})
        goneModified == Cardinality({k \in 1..Len(w.gone) : w.gone[k].mod})
        left == CountModified(tabs) - CountModified(w.tabs)
    IN  /\ \A g \in GroupIds : IsSubseq(ModSeq(w.tabs, g), ModSeq(tabs, g))
        /\ goneModified = discards
        /\ left >= goneModified
        /\ left - goneModified <= saves
        /\ left <= Len(w.gone)
        /\ \A g \in Leaves(splitters) \ Leaves(w.sp) : w.tabs[g].docs = <<>>
        /\ w.disk # disk => saves > 0

\* C34: whatever command runs in whatever state, a modified document leaves
\* its tab group only after the prompt for it was answered Discard, or Save
\* with a save that succeeded, and a tab group leaves the tree only when it
\* holds no document.
C34_NothingLostSilently ==
    \A o \in ClosingOutcomes \cup OtherOutcomes : NothingLostSilently(o)

\* close_split removes the focused tab group after its modified document
\* was discarded, while another tab group keeps a modified document
C34_DiscardedWithGroup ==
    /\ active # NoTabs
    /\ Cardinality(Modified(tabs, active)) = 1
    /\ CountModified(tabs) = 2
    /\ LET w == close_split(World(<<Discard>>))
       IN  /\ w.q = <<>>
           /\ active \notin Leaves(w.sp)
           /\ w.gone # <<>>
           /\ w.gone[Len(w.gone)].mod
           /\ CountModified(w.tabs) = 1
\* ------------------------------------------------------------- C35
\* What SplitContainer.close_all_tabs, answered by q, leaves: _closing unset,
\* the tree and the focus as they were, every tab group that came to be
\* empty still in the tree and empty; if it returns True every tab group is
\* empty, and if it returns False the tab groups before the one that refused
\* are empty, that one holds a modified document first, and those after it
\* are as they were
SweepKeepsTree(q) ==
    LET w == close_all_tabs(World(q))
        all == _get_all_tab_widgets(splitters)
    IN  /\ ~w.closing
        /\ w.sp = splitters
        /\ w.active = active
        /\ \A k \in 1..Len(w.emitted) :
               w.emitted[k] \in Leaves(w.sp) /\ w.tabs[w.emitted[k]].docs = <<>>
        /\ \A g \in Leaves(splitters) :
               tabs[g].docs # <<>> /\ w.tabs[g].docs = <<>> => g \in Range(w.emitted)
        /\ w.ret => \A g \in Leaves(splitters) : w.tabs[g].docs = <<>>
        /\ ~w.ret =>
               \E k \in 1..Len(all) :
                   /\ \A j \in 1..(k - 1) : w.tabs[all[j]].docs = <<>>
                   /\ w.tabs[all[k]].docs # <<>>
                   /\ Head(w.tabs[all[k]].docs).mod
                   /\ \A j \in (k + 1)..Len(all) : w.tabs[all[j]] = tabs[all[j]]

\* C35: _closing is unset between commands, and close_all_tabs, however it
\* ends, leaves it unset; during the sweep a tab group that comes to be
\* empty is neither refilled nor removed, so the tree and the focused tab
\* group stay as they were, and the sweep stops at the first tab group that
\* refuses a close and does not touch those after it.
C35_SweepKeepsTreeAndFocus ==
    /\ ~closing
    /\ \A q \in AnswerSeqs(Main, Cardinality(AllModified(tabs))) : SweepKeepsTree(q)

\* A sweep over two tab groups empties the first and is cancelled at the
\* second
C35_SweepCancelledAtSecondGroup ==
    LET all == _get_all_tab_widgets(splitters)
        w == close_all_tabs(World(<<Discard, Cancel>>))
    IN  /\ Len(all) = 2
        /\ Cardinality(Modified(tabs, all[1])) = 1
        /\ Cardinality(Modified(tabs, all[2])) = 1
        /\ ~w.ret
        /\ w.q = <<>>
        /\ w.tabs[all[1]].docs = <<>>
        /\ w.tabs[all[2]] = tabs[all[2]]
\* ------------------------------------------------------------- C36
\* EditorTabWidget.close_all_tabs of the tab group g, with _closing as c and
\* the prompts answered by q, comes to its end (before LoopCap rounds) with
\* at most one close_tab for each document the tab group held
CloseAllEnds(g, c, q) ==
    LET w == tw_close_all_tabs([World(q) EXCEPT !.closing = c], g)
    IN  /\ w.n <= Len(tabs[g].docs)
        /\ w.n < LoopCap
        /\ w.ret => w.tabs[g].docs = <<>> \/ g \notin Leaves(w.sp)

CloseAllEndsFor(g, c) ==
    \A q \in AnswerSeqs(Main, Cardinality(Modified(tabs, g))) : CloseAllEnds(g, c, q)

\* C36: close_all_tabs of a tab group comes to its end in every state and
\* for every sequence of answers, inside close_split, inside the sweep of
\* SplitContainer.close_all_tabs, and on the sole tab group with _closing
\* unset (where the tab group is refilled when its last tab closes), with at
\* most one close_tab for each document it held at the start.
C36_CloseAllTerminates ==
    \A g \in Leaves(splitters) : CloseAllEndsFor(g, TRUE) /\ CloseAllEndsFor(g, FALSE)

\* C36, inside the sweep (_closing set)
C36_CloseAllTerminatesInSweep == \A g \in Leaves(splitters) : CloseAllEndsFor(g, TRUE)

\* C36, with _closing unset and several tab groups, as inside close_split
\* (and for every other tab group of the tree)
C36_CloseAllTerminatesAmongSeveral ==
    Cardinality(Leaves(splitters)) > 1 => \A g \in Leaves(splitters) : CloseAllEndsFor(g, FALSE)

\* On the sole tab group with _closing unset, close_all_tabs closes the
\* documents and then goes on closing the tab that refills the group
C36_SoleGroupRefilledForEver ==
    /\ Cardinality(Leaves(splitters)) = 1
    /\ LET w == tw_close_all_tabs(World(<<>>), active)
       IN  /\ w.n = LoopCap
           /\ Len(w.gone) = LoopCap
           /\ w.tabs[active].docs = <<TextEditor>>
\* ------------------------------------------------------------- C37
\* The splitters a split in orientation o makes, and the tree it leaves
NewSplits(o) ==
    LET w == _split(World(<<>>), o) IN Splits(w.sp) \ Splits(splitters)

\* C37: between commands every splitter of the tree other than
\* root_splitter holds at least two widgets and root_splitter at least one,
\* and a splitter that a split makes holds exactly two.
C37_SplitsKeepTwoChildren ==
    /\ Len(splitters[root_splitter].lay) >= 1
    /\ \A s \in Splits(splitters) \ {root_splitter} : Len(splitters[s].lay) >= 2
    /\ \A o \in Orientations :
           LET w == _split(World(<<>>), o)
           IN  /\ \A s \in NewSplits(o) : Len(w.sp[s].lay) = 2 /\ w.active \in Range(w.sp[s].lay)
               /\ Cardinality(NewSplits(o)) <= 1
               /\ \A s \in Splits(w.sp) \ {root_splitter} : Len(w.sp[s].lay) >= 2

\* A tree with an inner splitter and a tab group emptied by close_all_tabs,
\* in which a split of the focused tab group makes another splitter
C37_SplitMakesSplitter ==
    /\ Cardinality(Splits(splitters)) >= 2
    /\ \E g \in Leaves(splitters) : tabs[g].docs = <<>>
    /\ \E o \in Orientations : NewSplits(o) # {}
\* ------------------------------------------------------------- C38
\* The trees the cleanup is run on: the tree between commands, and the tree
\* as _remove_tab_widget hands it over, a tab group taken out of its
\* splitter; with the rest of the state
Uncleaned ==
    {World(<<>>)}
    \cup {[World(<<>>) EXCEPT !.sp = setParentNone(splitters, g)] : g \in Leaves(splitters)}
    \cup {[World(<<>>) EXCEPT !.sp = setParentNone(setParentNone(splitters, g), h)] :
              g \in Leaves(splitters), h \in Leaves(splitters)}

\* One run of the cleanup on w changes nothing a second run would change
\* again, keeps every tab group of the tree, the focus, and the documents of
\* every tab group
CleanupPreserves(w) ==
    LET once == tree_cleaned(w)
        twice == tree_cleaned(once)
    IN  /\ twice = once
        /\ Leaves(once.sp) = Leaves(w.sp)
        /\ once.active = w.active
        /\ once.tabs = w.tabs
        /\ Len(once.sp[root_splitter].lay) >= 1 \/ Leaves(w.sp) = {}
        /\ \A s \in Splits(once.sp) \ {root_splitter} : Len(once.sp[s].lay) >= 2

\* C38: a second run of the cleanup directly after a run changes nothing,
\* and one run removes no tab group, keeps the order of the tab groups
\* (as laid out, and as _get_all_tab_widgets lists them), the focused tab
\* group and the documents of every tab group.
C38_CleanupIdempotentKeepsLeaves ==
    \A w \in Uncleaned :
        /\ CleanupPreserves(w)
        /\ VisualLeaves(tree_cleaned(w).sp, root_splitter) = VisualLeaves(w.sp, root_splitter)
        /\ _get_all_tab_widgets(tree_cleaned(w).sp) = _get_all_tab_widgets(w.sp)

\* C38, the order of the tab groups being their order in the layout
C38_CleanupIdempotentKeepsLayout ==
    \A w \in Uncleaned :
        /\ CleanupPreserves(w)
        /\ VisualLeaves(tree_cleaned(w).sp, root_splitter) = VisualLeaves(w.sp, root_splitter)

\* The cleanup replaces a splitter left with one widget by that widget, the
\* tree holding two tab groups after it
C38_CleanupCollapses ==
    \E g \in Leaves(splitters) :
        LET w == [World(<<>>) EXCEPT !.sp = setParentNone(splitters, g)]
        IN  /\ Cardinality(Leaves(w.sp)) = 2
            /\ Cardinality(Splits(tree_cleaned(w).sp)) < Cardinality(Splits(w.sp))
\* ------------------------------------------------------------- C39
\* The matches find_next selects one after the other, up to the first one it
\* selects again
RECURSIVE CycleFrom(_, _, _)
CycleFrom(b, k, seen) ==
    LET nb == find_next(b)
    IN  IF k = 0 \/ ~nb.ret \/ textCursor(nb.editor) \in seen THEN seen
        ELSE CycleFrom(nb, k - 1, seen \cup {textCursor(nb.editor)})

\* The matches of a round of find_next begun with the cursor at the start
\* of the text
CycleVisits ==
    CycleFrom([TheBar EXCEPT !.editor = setTextCursor(@, StartCursor)], ReplaceCap, {})

\* The number replace_all returns is the number _update_match_count shows
\* for the text before the replacing, and the number of matches find_next
\* goes round
CountsAgree ==
    /\ replace_all(TheBar).n = _update_match_count(TheBar)
    /\ Cardinality(CycleVisits) = _update_match_count(TheBar)

\* C39: for every text, non-empty query, replacement and setting of the
\* flags, replace_all returns the number that the match count shows for the
\* text just before, and both are the number of matches a round of
\* find_next visits.
C39_CountsAgree ==
    (find_replace._editor # NoEditor /\ find_replace.find_input # <<>>) => CountsAgree

\* C39, for a search that is not for whole words
C39_CountsAgreeAnyWord == find_replace.whole_word \/ C39_CountsAgree

\* C39, for a query that begins with a letter
C39_CountsAgreeOfWords ==
    (find_replace.find_input # <<>> /\ ~isLetterOrNumber(Head(find_replace.find_input)))
        \/ C39_CountsAgree

\* Three matches counted, of which replace_all replaces fewer
C39_CountedMoreThanReplaced ==
    /\ find_replace._editor # NoEditor
    /\ _update_match_count(TheBar) = 3
    /\ Cardinality(CycleVisits) = 3
    /\ replace_all(TheBar).n < 3
\* ------------------------------------------------------------- C40
\* The document the SplitContainer reports as focused in w
FocusedDocument(w) ==
    IF w.active # NoTabs /\ Len(w.tabs[w.active].docs) > 0 /\ w.tabs[w.active].cur # NoTabs
    THEN <<w.active, w.tabs[w.active].cur, w.tabs[w.active].docs[w.tabs[w.active].cur]>>
    ELSE <<NoTabs, NoTabs>>

\* The tab groups that a close request on their only tab takes out of the
\* tree, with the state w after it
Removals ==
    UNION {{[g |-> g, w |-> w] :
               w \in {x \in {tw_close_tab(World(q), g, 1) : q \in AnswerSeqs(Main, 1)} :
                          g \notin Leaves(x.sp)}} :
           g \in {h \in Leaves(splitters) :
                      Len(tabs[h].docs) = 1 /\ Cardinality(Leaves(splitters)) > 1}}

\* The removal of the focused tab group focuses the first one of the layout
\* of the tree that remains
FocusToFirstOfLayout ==
    \A r \in Removals :
        r.g = active => r.w.active = Head(VisualLeaves(r.w.sp, root_splitter))

\* The removal of the focused tab group focuses the first one that
\* _get_all_tab_widgets lists once the group is taken out
FocusToFirstListed ==
    \A r \in Removals :
        r.g = active =>
            /\ r.w.active = Head(_get_all_tab_widgets(setParentNone(splitters, r.g)))
            /\ r.w.active \in Leaves(r.w.sp)

\* The removal of another tab group leaves the focus where it is
OtherRemovalKeepsFocus ==
    \A r \in Removals :
        r.g # active => r.w.active = active /\ FocusedDocument(r.w) = FocusedDocument(World(<<>>))

\* A change of the current tab of a tab group that is not the focused one
\* does not change the focused document nor what the find bar is bound to
OtherCurrentChangedKeepsFocus ==
    \A g \in Leaves(splitters) \ {active} : \A i \in 1..Len(tabs[g].docs) :
        /\ _on_current_changed(World(<<>>), g, i) = World(<<>>)
        /\ LET w == setCurrentIndex(World(<<>>), g, i)
           IN  /\ w.active = active
               /\ FocusedDocument(w) = FocusedDocument(World(<<>>))
               /\ w.find_replace = find_replace

C40_FocusAfterRemovalAsListed ==
    FocusToFirstListed /\ OtherRemovalKeepsFocus /\ OtherCurrentChangedKeepsFocus

\* The focused tab group of three is removed and the focus goes to one that
\* is not the first of the layout
C40_FocusMovedPastFirst ==
    /\ Cardinality(Leaves(splitters)) = 3
    /\ \E r \in Removals :
           /\ r.g = active
           /\ r.w.active # active
           /\ r.w.active # Head(VisualLeaves(r.w.sp, root_splitter))
====
